---- MODULE Spec2Model ----
(***************************************************************************)
(* Model of the mall/store ingestion pipeline of backend/app:              *)
(*   routers/data.py            gather_data, get_status                    *)
(*   services/data_gatherer.py  job tracker, region/floor helpers,         *)
(*                              upserts, run_gather_job                    *)
(*   models.py                  Mall, Store, MallStore                     *)
(*                                                                         *)
(* Python strings are sequences of one-character strings; a literal that   *)
(* is only ever compared as a whole is a one-element sequence (Lit).       *)
(* Python's None is the one-element sequence None below, which is no       *)
(* string of the model's alphabet.                                         *)
(***************************************************************************)
EXTENDS Naturals, Sequences, FiniteSets, TLC

\* ------------------------------------------------------------------ bounds
\* number of job ids gather_data may allocate in one behaviour
MaxJobs == 2
\* longest mall list the primary source returns
MaxListLen == 1
\* number of calls in a behaviour of the storage specification SpecDb
MaxOps == 4
\* number of calls in a behaviour of the Mall specification SpecMall
MaxMallOps == 3
\* number of runs in a behaviour of the whole-run specification SpecRuns
MaxRuns == 3
\* longest name given to _normalize in SpecNormalize
MaxNameLen == 3
\* longest unit drawn from the alphabet in SpecFloor
MaxUnitLen == 4
\* the most malls one source lists for a run that is followed call by call
MaxMalls == 2
\* the most responses one browser page receives
MaxResponses == 3
\* the most follow-up pages a store directory has
MaxPages == 3

\* ----------------------------------------------------------------- strings
None == <<"<None>">>

Lit(s) == <<s>>

\* Python truthiness of an Optional[str]
Truthy(s) == s # None /\ s # <<>>

\* Python's  a or b
PyOr(a, b) == IF Truthy(a) THEN a ELSE b

Digits == {"0", "1", "2", "3", "4", "5", "6", "7", "8", "9"}

DigitChar == <<"1", "2", "3", "4", "5", "6", "7", "8", "9">>

DigitVal(c) == CASE c = "0" -> 0 [] c = "1" -> 1 [] c = "2" -> 2 [] c = "3" -> 3
                 [] c = "4" -> 4 [] c = "5" -> 5 [] c = "6" -> 6 [] c = "7" -> 7
                 [] c = "8" -> 8 [] c = "9" -> 9

LowerLetters == <<"a", "b", "c", "d", "e", "f", "g", "h", "i", "j", "k", "l", "m",
                  "n", "o", "p", "q", "r", "s", "t", "u", "v", "w", "x", "y", "z">>

UpperLetters == <<"A", "B", "C", "D", "E", "F", "G", "H", "I", "J", "K", "L", "M",
                  "N", "O", "P", "Q", "R", "S", "T", "U", "V", "W", "X", "Y", "Z">>

Range(f) == {f[x] : x \in DOMAIN f}

\* str.lower() on one character
Lower(c) == IF c \in Range(UpperLetters)
            THEN LowerLetters[CHOOSE i \in DOMAIN UpperLetters : UpperLetters[i] = c]
            ELSE c

Whitespace == {" "}

RECURSIVE LStrip(_)
LStrip(s) == IF s # <<>> /\ Head(s) \in Whitespace THEN LStrip(Tail(s)) ELSE s

RECURSIVE RStrip(_)
RStrip(s) == IF s # <<>> /\ s[Len(s)] \in Whitespace
             THEN RStrip(SubSeq(s, 1, Len(s) - 1)) ELSE s

\* str.strip()
Strip(s) == RStrip(LStrip(s))

\* The characters beyond ASCII whose lower case holds an ASCII letter: the
\* Kelvin sign lowers to k, the capital I with a dot above to i and a combining
\* dot above.  Each is one character of the model, spelt by its code point.
KelvinSign == "U+212A"
CapitalIDot == "U+0130"
CombiningDot == "U+0307"

\* str.lower() on one character, as a string
LowerOf(c) == IF c = KelvinSign THEN <<"k">>
              ELSE IF c = CapitalIDot THEN <<"i", CombiningDot>>
              ELSE <<Lower(c)>>

\* str.lower()
RECURSIVE StrLower(_)
StrLower(s) == IF s = <<>> THEN <<>> ELSE LowerOf(Head(s)) \o StrLower(Tail(s))

\* re.sub(r"[^a-z0-9]", "", s)
StripNonAlnum(s) == SelectSeq(s, LAMBDA c : c \in Range(LowerLetters) \cup Digits)

\* as _normalize, without the lower()
NormalizeKeepingCase(name) == StripNonAlnum(name)

_normalize(name) == StripNonAlnum(StrLower(name))

\* ------------------------------------------------------------ region, floor
Central == Lit("Central")
North == Lit("North")
NorthEast == Lit("North-East")
East == Lit("East")
West == Lit("West")
South == Lit("South")

\* as POSTAL_PREFIX_TO_REGION, with Central for every other prefix
PostalPrefixOrCentral(p) ==
    CASE p \in (1..15) \cup {17} \cup (20..23) \cup (50..52) \cup {83, 84} -> Central
      [] p \in {16, 18, 19} \cup (42..48) \cup {72, 73} \cup (75..78) \cup {81} -> East
      [] p \in (24..27) \cup {49} \cup (58..69) -> West
      [] p \in (28..41) -> North
      [] p \in (53..57) \cup {79, 80, 82} -> NorthEast
      [] p \in {70, 71} -> South
      [] OTHER -> Central

\* the table, keyed by the number its two-digit key spells
POSTAL_PREFIX_TO_REGION(p) ==
    CASE p \in (1..15) \cup {17} \cup (20..23) \cup (50..52) \cup {83, 84} -> Central
      [] p \in {16, 18, 19} \cup (42..48) \cup {72, 73} \cup (75..78) \cup {81} -> East
      [] p \in (24..27) \cup {49} \cup (58..69) -> West
      [] p \in (28..41) -> North
      [] p \in (53..57) \cup {79, 80, 82} -> NorthEast
      [] p \in {70, 71} -> South
      [] OTHER -> None

\* re.search(r"(?:Singapore\s+)?(\d{6})", address).group(1): wherever the match
\* starts, group 1 is the leftmost window of six digits (0 if there is none)
FirstSixDigits(address) ==
    LET starts == {i \in 1..Len(address) :
                     /\ i + 5 <= Len(address)
                     /\ \A k \in 0..5 : address[i + k] \in Digits}
    IN  IF starts = {} THEN 0
        ELSE CHOOSE i \in starts : \A k \in starts : i <= k

_infer_region_from_address(address) ==
    IF ~Truthy(address) THEN None
    ELSE LET i == FirstSixDigits(address)
         IN  IF i = 0 THEN None
             ELSE POSTAL_PREFIX_TO_REGION(
                      10 * DigitVal(address[i]) + DigitVal(address[i + 1]))

\* dict.get(key) of a region map (a function on normalized names)
WikiGet(wiki_map, key) == IF key \in DOMAIN wiki_map THEN wiki_map[key] ELSE None

SINGMALLS_BASE == Lit("https://singmalls.app")
CAPITALAND_BASE == Lit("https://www.capitaland.com")

\* as _build_mall_data, but the address is asked before the region map
BuildMallDataAddressFirst(raw, wiki_map) ==
    LET name == Strip(raw.name)
        address == Strip(raw.address)
    IN  [name    |-> name,
         address |-> PyOr(address, None),
         region  |-> PyOr(_infer_region_from_address(address),
                          WikiGet(wiki_map, _normalize(name))),
         website |-> IF Truthy(raw.slug)
                     THEN SINGMALLS_BASE \o Lit("/en/malls/") \o raw.slug
                     ELSE None]

_build_mall_data(raw, wiki_map) ==
    LET name == Strip(raw.name)
        address == Strip(raw.address)
    IN  [name    |-> name,
         address |-> PyOr(address, None),
         region  |-> PyOr(WikiGet(wiki_map, _normalize(name)),
                          _infer_region_from_address(address)),
         website |-> IF Truthy(raw.slug)
                     THEN SINGMALLS_BASE \o Lit("/en/malls/") \o raw.slug
                     ELSE None]

\* the mall_data dict of the CapitaLand loop
CapitaLandMallData(mall_info, wiki_map) ==
    LET address == PyOr(mall_info.address, <<>>)
    IN  [name    |-> mall_info.name,
         address |-> PyOr(address, None),
         region  |-> PyOr(WikiGet(wiki_map, _normalize(mall_info.name)),
                          _infer_region_from_address(address)),
         website |-> CAPITALAND_BASE \o Lit("/sg/malls/") \o mall_info.slug
                         \o Lit("/en.html")]

RECURSIVE LeadingDigits(_)
LeadingDigits(s) == IF s # <<>> /\ Head(s) \in Digits
                    THEN <<Head(s)>> \o LeadingDigits(Tail(s)) ELSE <<>>

\* str(int(digits))
RECURSIVE StrInt(_)
StrInt(ds) == IF Len(ds) > 1 /\ Head(ds) = "0" THEN StrInt(Tail(ds)) ELSE ds

\* as _parse_floor_from_unit, but the digits are returned as they stand
ParseFloorKeepingZeros(unit) ==
    IF ~Truthy(unit) THEN None
    ELSE LET rest == IF Head(unit) = "#" THEN Tail(unit) ELSE unit
             ds == LeadingDigits(rest)
         IN  IF ds # <<>> /\ Len(rest) > Len(ds) /\ rest[Len(ds) + 1] = "-"
             THEN ds ELSE None

_parse_floor_from_unit(unit) ==
    IF ~Truthy(unit) THEN None
    ELSE LET rest == IF Head(unit) = "#" THEN Tail(unit) ELSE unit
             ds == LeadingDigits(rest)
         IN  IF ds # <<>> /\ Len(rest) > Len(ds) /\ rest[Len(ds) + 1] = "-"
             THEN StrInt(ds) ELSE None

\* ----------------------------------------------------------------- storage
\* Rows are records; a row's id (a fresh uuid in the code) is its rank in its
\* table.  An absent row (Python's None for a row) has id 0.
NoId == 0

\* db.query(Mall).filter(Mall.name == name).first(); Mall.name is unique
FindMall(malls, name) ==
    IF \E m \in malls : m.name = name
    THEN (CHOOSE m \in malls : m.name = name).id ELSE NoId

MallRow(malls, id) == CHOOSE m \in malls : m.id = id

\* as _upsert_mall, but a Mall that exists takes every value given, empty or not
UpsertMallOverwriting(malls, mall_data, now) ==
    LET name == Strip(mall_data.name)
        found == FindMall(malls, name)
    IN  IF ~Truthy(name) THEN [malls |-> malls, mall |-> NoId]
        ELSE [malls |-> {m \in malls : m.id # found} \cup
                            {[id           |-> IF found = NoId
                                               THEN Cardinality(malls) + 1 ELSE found,
                              name         |-> name,
                              address      |-> mall_data.address,
                              region       |-> mall_data.region,
                              website      |-> mall_data.website,
                              last_updated |-> now]},
              mall  |-> IF found = NoId THEN Cardinality(malls) + 1 ELSE found]

\* The tables after the call and the id of the returned Mall (NoId for None)
_upsert_mall(malls, mall_data, now) ==
    LET name == Strip(mall_data.name)
        found == FindMall(malls, name)
    IN  IF ~Truthy(name) THEN [malls |-> malls, mall |-> NoId]
        ELSE IF found = NoId
        THEN LET id == Cardinality(malls) + 1
             IN  [malls |-> malls \cup {[id           |-> id,
                                         name         |-> name,
                                         address      |-> mall_data.address,
                                         region       |-> mall_data.region,
                                         website      |-> mall_data.website,
                                         last_updated |-> now]},
                  mall  |-> id]
        ELSE LET old == MallRow(malls, found)
             IN  [malls |-> (malls \ {old}) \cup
                                {[id           |-> old.id,
                                  name         |-> old.name,
                                  address      |-> PyOr(mall_data.address, old.address),
                                  region       |-> PyOr(mall_data.region, old.region),
                                  website      |-> PyOr(mall_data.website, old.website),
                                  last_updated |-> now]},
                  mall  |-> found]

FindStore(stores, norm) ==
    IF \E s \in stores : s.normalized_name = norm
    THEN (CHOOSE s \in stores : s.normalized_name = norm).id ELSE NoId

\* as _upsert_store, but a Store that exists takes the name and category given
UpsertStoreLastWriter(stores, store_name, category) ==
    LET norm == _normalize(store_name)
        found == FindStore(stores, norm)
    IN  IF found = NoId
        THEN LET id == Cardinality(stores) + 1
             IN  [stores |-> stores \cup {[id              |-> id,
                                           name            |-> store_name,
                                           category        |-> category,
                                           normalized_name |-> norm]},
                  store  |-> id]
        ELSE [stores |-> {IF st.id = found
                          THEN [st EXCEPT !.name = store_name, !.category = category]
                          ELSE st : st \in stores},
              store  |-> found]

_upsert_store(stores, store_name, category) ==
    LET norm == _normalize(store_name)
        found == FindStore(stores, norm)
    IN  IF found = NoId
        THEN LET id == Cardinality(stores) + 1
             IN  [stores |-> stores \cup {[id              |-> id,
                                           name            |-> store_name,
                                           category        |-> category,
                                           normalized_name |-> norm]},
                  store  |-> id]
        ELSE [stores |-> stores, store |-> found]

\* as _upsert_mall_store, without the query for a row of the pair
UpsertMallStoreAlways(mall_stores, mall, store, floor, unit) ==
    mall_stores \cup {[id          |-> Cardinality(mall_stores) + 1,
                       mall_id     |-> mall,
                       store_id    |-> store,
                       floor       |-> floor,
                       unit_number |-> unit]}

\* as _upsert_mall_store, but a row that exists takes the floor and unit given
UpsertMallStoreOverwriting(mall_stores, mall, store, floor, unit) ==
    IF \E ms \in mall_stores : ms.mall_id = mall /\ ms.store_id = store
    THEN {IF ms.mall_id = mall /\ ms.store_id = store
          THEN [ms EXCEPT !.floor = floor, !.unit_number = unit] ELSE ms
          : ms \in mall_stores}
    ELSE mall_stores \cup {[id          |-> Cardinality(mall_stores) + 1,
                            mall_id     |-> mall,
                            store_id    |-> store,
                            floor       |-> floor,
                            unit_number |-> unit]}

_upsert_mall_store(mall_stores, mall, store, floor, unit) ==
    IF \E ms \in mall_stores : ms.mall_id = mall /\ ms.store_id = store
    THEN mall_stores
    ELSE mall_stores \cup {[id          |-> Cardinality(mall_stores) + 1,
                            mall_id     |-> mall,
                            store_id    |-> store,
                            floor       |-> floor,
                            unit_number |-> unit]}

\* The store loop of one mall (for s in stores: ...).  Storage calls are numbered
\* from 1 in the order the loop makes them; call number failAt raises (0: none
\* does), which ends the loop with what was committed before it.
RECURSIVE SaveStores(_, _, _, _, _)
SaveStores(db, mall, directory, op, failAt) ==
    IF directory = <<>> THEN db
    ELSE LET s == Head(directory)
             store_name == Strip(s.name)
         IN  IF ~Truthy(store_name)
             THEN SaveStores(db, mall, Tail(directory), op, failAt)
             ELSE IF failAt = op THEN db
             ELSE LET unit == s.unit
                      floor == _parse_floor_from_unit(unit)
                      us == _upsert_store(db.stores, store_name, s.category)
                      db1 == [stores |-> us.stores, mall_stores |-> db.mall_stores]
                  IN  IF failAt = op + 1 THEN db1
                      ELSE SaveStores(
                               [stores      |-> us.stores,
                                mall_stores |-> _upsert_mall_store(
                                    db.mall_stores, mall, us.store, floor, unit)],
                               mall, Tail(directory), op + 2, failAt)

\* ------------------------------------------------------------------ inputs
\* What the upstream sources can answer.  Every adapter returns stripped,
\* non-empty names, except that the CapitaLand list falls back to a name made
\* from the slug, which is blank for a slug of hyphens.
RawMall(k) ==
    [name    |-> <<"M", DigitChar[k]>>,
     slug    |-> <<"m", DigitChar[k]>>,
     address |-> IF k = 1
                 THEN <<"S", "i", "n", "g", "a", "p", "o", "r", "e", " ",
                        "2", "3", "8", "8", "0", "1">>
                 ELSE <<>>]

\* _scrape_singmalls_mall_list: the listing's first n entries, n = 0 for a failed
\* fetch, a missing payload or an empty listing
MallLists == {[k \in 1..n |-> RawMall(k)] : n \in 0..MaxListLen}

\* What _http_get returns for the region page: its failure value (ok is FALSE),
\* or a page with the malls its region headings list, by normalized name
WikiResponses ==
    {[ok |-> FALSE, regions |-> <<>>],
     [ok |-> TRUE, regions |-> <<>>],
     [ok |-> TRUE, regions |-> (<<"m", "1">> :> East)]}

_scrape_wiki_region_map(resp) == IF ~resp.ok THEN <<>> ELSE resp.regions

WikiMaps == {_scrape_wiki_region_map(resp) : resp \in WikiResponses}

\* str.upper() on one character
Upper(c) == IF c \in Range(LowerLetters)
            THEN UpperLetters[CHOOSE i \in DOMAIN LowerLetters : LowerLetters[i] = c]
            ELSE c

\* str.title() from a place that is (in_word) or is not inside a run of letters
RECURSIVE Title(_, _)
Title(s, in_word) ==
    IF s = <<>> THEN <<>>
    ELSE <<IF in_word THEN Lower(Head(s)) ELSE Upper(Head(s))>>
             \o Title(Tail(s), Head(s) \in Range(LowerLetters) \cup Range(UpperLetters))

\* slug.replace("-", " ").title()
Humanise(slug) ==
    Title([i \in DOMAIN slug |-> IF slug[i] = "-" THEN " " ELSE slug[i]], FALSE)

\* the loop over the links of the malls index: a slug is listed once, under the
\* link's text, else the nearest heading, else the humanised slug
RECURSIVE CapitaLandEntries(_, _)
CapitaLandEntries(links, seen_slugs) ==
    IF links = <<>> THEN <<>>
    ELSE LET a == Head(links)
         IN  IF a.slug \in seen_slugs
             THEN CapitaLandEntries(Tail(links), seen_slugs)
             ELSE <<[name    |-> IF Truthy(a.text) THEN a.text
                                 ELSE IF Truthy(a.heading) THEN a.heading
                                 ELSE Humanise(a.slug),
                     slug    |-> a.slug,
                     address |-> <<>>]>>
                  \o CapitaLandEntries(Tail(links), seen_slugs \cup {a.slug})

_scrape_capitaland_mall_list(resp) ==
    IF ~resp.ok THEN <<>> ELSE CapitaLandEntries(resp.links, {})

\* What _http_get returns for the CapitaLand malls index: its failure value, or
\* a page with its links to malls
CapitaLandResponses ==
    {[ok |-> FALSE, links |-> <<>>],
     [ok |-> TRUE, links |-> <<>>],
     [ok |-> TRUE, links |-> <<[text |-> <<>>, heading |-> <<>>, slug |-> <<"m", "2">>],
                               [text |-> <<"M", "2">>, heading |-> <<>>,
                                slug |-> <<"m", "2">>]>>],
     [ok |-> TRUE, links |-> <<[text |-> <<>>, heading |-> <<>>, slug |-> <<"-">>]>>]}

CapitaLandLists ==
    {_scrape_capitaland_mall_list(resp) : resp \in CapitaLandResponses}

StoreAb == [name |-> <<"A", "b">>, category |-> Lit("Fashion"),
            unit |-> <<"#", "0", "3", "-", "2", "4", "A">>]
StoreAB == [name |-> <<"A", "-", "B">>, category |-> Lit("Kids"),
            unit |-> <<"B", "1", "-", "0", "2">>]
StoreQ == [name |-> <<"Q">>, category |-> None, unit |-> None]

\* What _http_get returns for a directory page: its failure value, or a page
\* without the embedded payload, with a payload that has no merchants, or with
\* merchants
DirectoryResponses ==
    {[ok |-> FALSE, payload |-> "none", merchants |-> <<>>],
     [ok |-> TRUE, payload |-> "none", merchants |-> <<>>],
     [ok |-> TRUE, payload |-> "no merchants", merchants |-> <<>>],
     [ok |-> TRUE, payload |-> "merchants", merchants |-> <<>>],
     [ok |-> TRUE, payload |-> "merchants", merchants |-> <<StoreAb>>]}

_scrape_singmalls_stores(resp) ==
    IF ~resp.ok THEN <<>>
    ELSE IF resp.payload = "none" THEN <<>>
    ELSE IF resp.payload = "no merchants" THEN <<>>
    ELSE SelectSeq(resp.merchants, LAMBDA m : Truthy(Strip(m.name)))

\* A browser session on a CapitaLand directory page: whether playwright can be
\* imported, whether the browser runs without a Playwright error, whether a
\* tenants response was captured within the wait, and the stores parsed from it
BrowserSessions ==
    {[playwright |-> FALSE, launched |-> FALSE, captured |-> FALSE, stores |-> <<>>],
     [playwright |-> TRUE, launched |-> FALSE, captured |-> FALSE, stores |-> <<>>],
     [playwright |-> TRUE, launched |-> TRUE, captured |-> FALSE, stores |-> <<>>],
     [playwright |-> TRUE, launched |-> TRUE, captured |-> TRUE, stores |-> <<>>],
     [playwright |-> TRUE, launched |-> TRUE, captured |-> TRUE,
      stores |-> <<StoreAb>>]}

_scrape_capitaland_stores(session) ==
    IF ~session.playwright THEN <<>>
    ELSE IF ~session.launched THEN <<>>
    ELSE IF ~session.captured THEN <<>>
    ELSE session.stores

\* _scrape_singmalls_stores / _scrape_capitaland_stores when they return
Directories ==
    {_scrape_singmalls_stores(resp) : resp \in DirectoryResponses}
        \cup {_scrape_capitaland_stores(session) : session \in BrowserSessions}

\* str(e) of an exception that escapes a call
ExcMessages == {Lit("connection lost")}

\* ------------------------------------------------------------------- state
Jobs == 1..MaxJobs

\* str(uuid.uuid4()) of the k-th allocation
uuid4(k) == <<"job-", DigitChar[k]>>

VARIABLES
    _job_state,   \* the module-level tracker dict
    next_job,     \* how many job ids gather_data has allocated
    run,          \* per job: where run_gather_job is, and its locals
    malls,        \* table malls
    stores,       \* table stores
    mall_stores,  \* table mall_stores
    clock,        \* datetime.now(timezone.utc), in ticks
    response,     \* the response of the request the last step served, if it served one
    fetched,      \* the answer of the store-directory fetch the last step made, if it made one
    call,         \* the call the last step made, if it was a step of a specification of
                  \* one function; in SpecCapture, the page of one browser session
    outcome       \* per job: the terminal status its run has written

vars == <<_job_state, next_job, run, malls, stores, mall_stores, clock,
          response, fetched, call, outcome>>

NoResponse == [kind |-> "none"]

NoFetch == [kind |-> "none"]

NoCall == [kind |-> "none"]

\* fault: a fetch of phase 1 or a mall upsert of this run has raised
NoRun == [pc |-> "free", raw_malls |-> <<>>, wiki_map |-> <<>>,
          capitaland_malls |-> <<>>, total |-> 0, i |-> 0, mall |-> NoId,
          exc |-> None, fault |-> FALSE]

Init ==
    /\ _job_state = [job_id |-> None, status |-> "idle", total_malls |-> 0,
                     completed_malls |-> 0, current_mall |-> None, error |-> None]
    /\ next_job = 0
    /\ run = [j \in Jobs |-> NoRun]
    /\ malls = {}
    /\ stores = {}
    /\ mall_stores = {}
    /\ clock = 0
    /\ response = NoResponse
    /\ fetched = NoFetch
    /\ call = NoCall
    /\ outcome = [j \in Jobs |-> "none"]

\* ----------------------------------------------------------------- tracker
\* as get_job_state, but the counters are read apart from the rest, before the
\* run has written them
GetJobStateTorn == [_job_state EXCEPT !.total_malls = 0, !.completed_malls = 0]

\* dict(_job_state): one copy of the whole dict
get_job_state == _job_state

\* _job_state.update(kwargs): one merge of all the given fields
_update_state(kwargs) == kwargs @@ _job_state

\* ---------------------------------------------------------------- requests
GatherResponse(message, job_id) ==
    [kind |-> "gather", message |-> message, job_id |-> job_id]

\* as gather_data, without the check for a running job
GatherDataUnchecked ==
    /\ next_job < MaxJobs
    /\ next_job' = next_job + 1
    /\ run' = [run EXCEPT ![next_job + 1].pc = "queued"]
    /\ response' = GatherResponse("Data gathering started", uuid4(next_job + 1))
    /\ fetched' = NoFetch
    /\ UNCHANGED <<_job_state, malls, stores, mall_stores, clock, call, outcome>>

\* POST /api/data/gather
gather_data ==
    /\ LET state == get_job_state
       IN  IF state.status = "running"
           THEN /\ response' = GatherResponse("Job already running", state.job_id)
                /\ UNCHANGED <<next_job, run>>
           ELSE /\ next_job < MaxJobs
                /\ next_job' = next_job + 1
                /\ run' = [run EXCEPT ![next_job + 1].pc = "queued"]
                /\ response' = GatherResponse("Data gathering started",
                                              uuid4(next_job + 1))
    /\ fetched' = NoFetch
    /\ UNCHANGED <<_job_state, malls, stores, mall_stores, clock, call, outcome>>

StatusResponse(state) ==
    [kind            |-> "status",
     job_id          |-> PyOr(state.job_id, <<>>),
     status          |-> state.status,
     total_malls     |-> state.total_malls,
     completed_malls |-> state.completed_malls,
     current_mall    |-> state.current_mall,
     error           |-> state.error]

\* GET /api/data/status
get_status ==
    /\ response' = StatusResponse(get_job_state)
    /\ fetched' = NoFetch
    /\ UNCHANGED <<_job_state, next_job, run, malls, stores, mall_stores, clock,
                   call, outcome>>

\* ------------------------------------------------------- run_gather_job(job_id)
\* A step of job j's run: its locals and its place change as given
Goto(j, pc, locals) == run' = [run EXCEPT ![j] = [pc |-> pc] @@ locals @@ @]

\* A call of _update_state by job j's run
Track(j, kwargs) ==
    /\ _job_state' = _update_state(kwargs)
    /\ outcome' = IF "status" \in DOMAIN kwargs /\ kwargs.status \in {"done", "error"}
                  THEN [outcome EXCEPT ![j] = kwargs.status]
                  ELSE outcome

\* an exception leaves the try block for the handler
Raise(j, e) == Goto(j, "raised", [exc |-> e, fault |-> TRUE])

\* as Begin, but the first update sets only the id and the status
BeginKeepingResult(j) ==
    /\ run[j].pc = "queued"
    /\ Track(j, [job_id |-> uuid4(j), status |-> "running"])
    /\ Goto(j, "list", <<>>)
    /\ response' = NoResponse
    /\ fetched' = NoFetch
    /\ UNCHANGED <<next_job, malls, stores, mall_stores, clock, call>>

\* The background task starts: the first _update_state, the session objects
Begin(j) ==
    /\ run[j].pc = "queued"
    /\ Track(j, [job_id |-> uuid4(j), status |-> "running", total_malls |-> 0,
                 completed_malls |-> 0, current_mall |-> None, error |-> None])
    /\ Goto(j, "list", <<>>)
    /\ response' = NoResponse
    /\ fetched' = NoFetch
    /\ UNCHANGED <<next_job, malls, stores, mall_stores, clock, call>>

FetchMallList(j) ==
    /\ run[j].pc = "list"
    /\ Track(j, [current_mall |-> Lit("Fetching mall list...")])
    /\ \/ \E raw_malls \in MallLists : Goto(j, "check", [raw_malls |-> raw_malls])
       \/ \E e \in ExcMessages : Raise(j, e)
    /\ response' = NoResponse
    /\ fetched' = NoFetch
    /\ UNCHANGED <<next_job, malls, stores, mall_stores, clock, call>>

\* as MallListEmpty, but the run goes on to the region map
MallListEmptyGoesOn(j) ==
    /\ run[j].pc = "check"
    /\ ~(run[j].raw_malls # <<>>)
    /\ Track(j, [current_mall |-> Lit("Fetching region data...")])
    /\ \E wiki_map \in WikiMaps : Goto(j, "capitaland", [wiki_map |-> wiki_map])
    /\ response' = NoResponse
    /\ fetched' = NoFetch
    /\ UNCHANGED <<next_job, malls, stores, mall_stores, clock, call>>

\* if not raw_malls: the error update and the return
MallListEmpty(j) ==
    /\ run[j].pc = "check"
    /\ ~(run[j].raw_malls # <<>>)
    /\ Track(j, [status |-> "error",
                 error  |-> Lit("Failed to scrape mall list from singmalls.app")])
    /\ Goto(j, "finally", <<>>)
    /\ response' = NoResponse
    /\ fetched' = NoFetch
    /\ UNCHANGED <<next_job, malls, stores, mall_stores, clock, call>>

\* as FetchRegionMap, but an empty region map ends the run as an empty mall list
\* does
FetchRegionMapRequired(j) ==
    /\ run[j].pc = "check"
    /\ run[j].raw_malls # <<>>
    /\ \/ \E wiki_map \in WikiMaps :
              IF wiki_map = <<>>
              THEN /\ Track(j, [status |-> "error",
                                error  |-> Lit("Failed to scrape region map")])
                   /\ Goto(j, "finally", <<>>)
              ELSE /\ Track(j, [current_mall |-> Lit("Fetching region data...")])
                   /\ Goto(j, "capitaland", [wiki_map |-> wiki_map])
       \/ /\ Track(j, [current_mall |-> Lit("Fetching region data...")])
          /\ \E e \in ExcMessages : Raise(j, e)
    /\ response' = NoResponse
    /\ fetched' = NoFetch
    /\ UNCHANGED <<next_job, malls, stores, mall_stores, clock, call>>

FetchRegionMap(j) ==
    /\ run[j].pc = "check"
    /\ run[j].raw_malls # <<>>
    /\ Track(j, [current_mall |-> Lit("Fetching region data...")])
    /\ \/ \E wiki_map \in WikiMaps : Goto(j, "capitaland", [wiki_map |-> wiki_map])
       \/ \E e \in ExcMessages : Raise(j, e)
    /\ response' = NoResponse
    /\ fetched' = NoFetch
    /\ UNCHANGED <<next_job, malls, stores, mall_stores, clock, call>>

FetchCapitaLandList(j) ==
    /\ run[j].pc = "capitaland"
    /\ Track(j, [current_mall |-> Lit("Fetching CapitaLand mall list...")])
    /\ \/ \E capitaland_malls \in CapitaLandLists :
              Goto(j, "total", [capitaland_malls |-> capitaland_malls])
       \/ \E e \in ExcMessages : Raise(j, e)
    /\ response' = NoResponse
    /\ fetched' = NoFetch
    /\ UNCHANGED <<next_job, malls, stores, mall_stores, clock, call>>

SetTotal(j) ==
    /\ run[j].pc = "total"
    /\ LET total == Len(run[j].raw_malls) + Len(run[j].capitaland_malls)
       IN  /\ Track(j, [total_malls |-> total])
           /\ Goto(j, "singmalls", [total |-> total, i |-> 0])
    /\ response' = NoResponse
    /\ fetched' = NoFetch
    /\ UNCHANGED <<next_job, malls, stores, mall_stores, clock, call>>

\* the next iteration of the SingMalls loop, or the CapitaLand loop after it
NextSingMalls(j) ==
    IF run[j].i + 1 < Len(run[j].raw_malls)
    THEN [pc |-> "singmalls", i |-> run[j].i + 1]
    ELSE [pc |-> "capitaland_malls", i |-> 0]

NextCapitaLand(j) == [pc |-> "capitaland_malls", i |-> run[j].i + 1]

\* One iteration of a mall loop up to the try block: the progress update (given
\* as kwargs) and _upsert_mall.  `next` is where `continue` goes, `body` the
\* place of the try block.
UpsertMallStep(j, kwargs, mall_data, next, body) ==
    /\ Track(j, kwargs)
    /\ \/ \E r \in {_upsert_mall(malls, mall_data, clock + 1)} :
              /\ malls' = r.malls
              /\ clock' = IF Truthy(Strip(mall_data.name)) THEN clock + 1 ELSE clock
              /\ IF r.mall = NoId
                 THEN Goto(j, next.pc, [i |-> next.i, mall |-> NoId])
                 ELSE Goto(j, body, [mall |-> r.mall])
       \/ /\ \E e \in ExcMessages : Raise(j, e)
          /\ UNCHANGED <<malls, clock>>

\* The calls the store loop makes to storage for a directory
StorageCalls(directory) == 2 * Len(directory)

\* The try block of one mall and the sleep after it: the directory fetch, which
\* may throw, then the store loop, in which a storage call may raise
StoresStep(j, next) ==
    \/ /\ fetched' = [kind |-> "threw", job |-> j]
       /\ Goto(j, next.pc, [i |-> next.i])
       /\ UNCHANGED <<stores, mall_stores>>
    \/ \E directory \in Directories : \E failAt \in 0..StorageCalls(directory) :
          \E db \in {SaveStores([stores |-> stores, mall_stores |-> mall_stores],
                                run[j].mall, directory, 1, failAt)} :
              /\ fetched' = [kind |-> "stores", job |-> j, directory |-> directory,
                             failAt |-> failAt]
              /\ stores' = db.stores
              /\ mall_stores' = db.mall_stores
              /\ Goto(j, next.pc, [i |-> next.i])

SingMallsMall(j) ==
    /\ run[j].pc = "singmalls"
    /\ LET raw == run[j].raw_malls[run[j].i + 1]
           mall_name == Strip(raw.name)
       IN  IF ~Truthy(mall_name)
           THEN /\ Goto(j, NextSingMalls(j).pc, [i |-> NextSingMalls(j).i])
                /\ UNCHANGED <<_job_state, outcome, malls, clock>>
           ELSE \E mall_data \in {_build_mall_data(raw, run[j].wiki_map)} :
                    UpsertMallStep(j, [current_mall |-> mall_name,
                                       completed_malls |-> run[j].i],
                                   mall_data, NextSingMalls(j), "singmalls_stores")
    /\ response' = NoResponse
    /\ fetched' = NoFetch
    /\ UNCHANGED <<next_job, stores, mall_stores, call>>

SingMallsStores(j) ==
    /\ run[j].pc = "singmalls_stores"
    /\ StoresStep(j, NextSingMalls(j))
    /\ response' = NoResponse
    /\ UNCHANGED <<_job_state, outcome, next_job, malls, clock, call>>

CapitaLandMall(j) ==
    /\ run[j].pc = "capitaland_malls"
    /\ run[j].i < Len(run[j].capitaland_malls)
    /\ LET mall_info == run[j].capitaland_malls[run[j].i + 1]
           singmalls_done == Len(run[j].raw_malls)
       IN  \E mall_data \in {CapitaLandMallData(mall_info, run[j].wiki_map)} :
               UpsertMallStep(j, [current_mall |-> Lit("[CapitaLand] ") \o mall_info.name,
                                  completed_malls |-> singmalls_done + run[j].i],
                              mall_data, NextCapitaLand(j), "capitaland_stores")
    /\ response' = NoResponse
    /\ fetched' = NoFetch
    /\ UNCHANGED <<next_job, stores, mall_stores, call>>

CapitaLandStores(j) ==
    /\ run[j].pc = "capitaland_stores"
    /\ StoresStep(j, NextCapitaLand(j))
    /\ response' = NoResponse
    /\ UNCHANGED <<_job_state, outcome, next_job, malls, clock, call>>

\* both loops are through: the done update
Done(j) ==
    /\ run[j].pc = "capitaland_malls"
    /\ ~(run[j].i < Len(run[j].capitaland_malls))
    /\ Track(j, [status |-> "done", completed_malls |-> run[j].total,
                 current_mall |-> None])
    /\ Goto(j, "finally", <<>>)
    /\ response' = NoResponse
    /\ fetched' = NoFetch
    /\ UNCHANGED <<next_job, malls, stores, mall_stores, clock, call>>

\* as ExceptHandler, but the error written is the line that is logged
ExceptHandlerLogLine(j) ==
    /\ run[j].pc = "raised"
    /\ Track(j, [status |-> "error", error |-> Lit("Data gathering job failed")])
    /\ Goto(j, "finally", <<>>)
    /\ response' = NoResponse
    /\ fetched' = NoFetch
    /\ UNCHANGED <<next_job, malls, stores, mall_stores, clock, call>>

\* as ExceptHandler, but the exception is only logged
ExceptHandlerLogOnly(j) ==
    /\ run[j].pc = "raised"
    /\ Goto(j, "finally", <<>>)
    /\ response' = NoResponse
    /\ fetched' = NoFetch
    /\ UNCHANGED <<_job_state, outcome, next_job, malls, stores, mall_stores, clock,
                   call>>

\* except Exception as e: the error update
ExceptHandler(j) ==
    /\ run[j].pc = "raised"
    /\ Track(j, [status |-> "error", error |-> run[j].exc])
    /\ Goto(j, "finally", <<>>)
    /\ response' = NoResponse
    /\ fetched' = NoFetch
    /\ UNCHANGED <<next_job, malls, stores, mall_stores, clock, call>>

\* finally: the sessions are closed and the task returns
Finally(j) ==
    /\ run[j].pc = "finally"
    /\ run' = [run EXCEPT ![j] = [pc |-> "returned"] @@ NoRun]
    /\ response' = NoResponse
    /\ fetched' = NoFetch
    /\ UNCHANGED <<_job_state, next_job, malls, stores, mall_stores, clock, call, outcome>>

RunStep(j) ==
    \/ Begin(j)
    \/ FetchMallList(j)
    \/ MallListEmpty(j)
    \/ FetchRegionMap(j)
    \/ FetchCapitaLandList(j)
    \/ SetTotal(j)
    \/ SingMallsMall(j)
    \/ SingMallsStores(j)
    \/ CapitaLandMall(j)
    \/ CapitaLandStores(j)
    \/ Done(j)
    \/ ExceptHandler(j)
    \/ Finally(j)

Next ==
    \/ gather_data
    \/ get_status
    \/ \E j \in Jobs : RunStep(j)

Spec == Init /\ [][Next]_vars

\* ---------------------------------------------------------------- fairness
\* The thread pool runs every accepted task, and every fetch and sleep of a run
\* returns or raises: a run that can take a step takes one.  This is
\* WF_vars(RunStep(j)) for every job j, written with the two facts below: the
\* run of job j can take a step exactly when it is queued or executing, and a
\* step is one of job j's run exactly when it changes run[j] after the request
\* that queued it.
CanStep(j) == run[j].pc \notin {"free", "returned"}

Moves(j) == run[j].pc # "free" /\ run'[j] # run[j]

FairSpec == Spec /\ \A j \in Jobs : ([]<>~CanStep(j) \/ []<><<Moves(j)>>_vars)

\* ENABLED <<RunStep(j)>>_vars is CanStep(j)
CanStepIsEnabled == \A j \in Jobs : CanStep(j) <=> ENABLED <<RunStep(j)>>_vars

\* <<RunStep(j)>>_vars is <<Moves(j)>>_vars
MovesIsRunStep == [][\A j \in Jobs : Moves(j) <=> RunStep(j)]_vars

\* ------------------------------------------------- storage calls on their own
\* Any sequence of calls of the three upserts, each with any arguments; every
\* call takes a tick of the clock.
MallDataArgs ==
    {[name |-> name, address |-> None, region |-> region, website |-> None] :
        name \in {<<"M", "1">>, <<"M", "2">>}, region \in {None, Central, North}}

StoreArgs == {StoreAb, StoreAB, StoreQ}

FloorArgs == {None, <<"3">>, <<"9">>}

UnitArgs == {None, StoreAb.unit, StoreAB.unit}

CallUpsertMall ==
    /\ clock < MaxOps
    /\ \E mall_data \in MallDataArgs :
          /\ malls' = _upsert_mall(malls, mall_data, clock + 1).malls
          /\ call' = [kind |-> "_upsert_mall", mall_data |-> mall_data]
    /\ clock' = clock + 1
    /\ UNCHANGED <<_job_state, next_job, run, stores, mall_stores, response,
                   fetched, outcome>>

CallUpsertStore ==
    /\ clock < MaxOps
    /\ \E s \in StoreArgs :
          /\ stores' = _upsert_store(stores, s.name, s.category).stores
          /\ call' = [kind |-> "_upsert_store", store_name |-> s.name,
                      category |-> s.category]
    /\ clock' = clock + 1
    /\ UNCHANGED <<_job_state, next_job, run, malls, mall_stores, response,
                   fetched, outcome>>

CallUpsertMallStore ==
    /\ clock < MaxOps
    /\ \E mall \in malls : \E store \in stores :
          \E floor \in FloorArgs : \E unit \in UnitArgs :
              /\ mall_stores' = _upsert_mall_store(mall_stores, mall.id, store.id,
                                                   floor, unit)
              /\ call' = [kind |-> "_upsert_mall_store", mall |-> mall.id,
                          store |-> store.id, floor |-> floor, unit |-> unit]
    /\ clock' = clock + 1
    /\ UNCHANGED <<_job_state, next_job, run, malls, stores, response, fetched,
                   outcome>>

NextDb ==
    \/ CallUpsertMall
    \/ CallUpsertStore
    \/ CallUpsertMallStore

SpecDb == Init /\ [][NextDb]_vars

\* ------------------------------------------------------ Mall upserts on their own
\* Any sequence of _upsert_mall calls; each of address, region and website is
\* missing (None), empty or a value, independently of the others.
MallDataWide ==
    {[name |-> name, address |-> address, region |-> region, website |-> website] :
        name \in {<<"M", "1">>, <<"M", "2">>},
        address \in {None, <<>>, Lit("2 Orchard Turn")},
        region \in {None, <<>>, Central, North},
        website \in {None, <<>>, SINGMALLS_BASE \o Lit("/en/malls/") \o <<"m", "1">>}}

UpsertMallCall ==
    /\ clock < MaxMallOps
    /\ \E mall_data \in MallDataWide :
          /\ malls' = _upsert_mall(malls, mall_data, clock + 1).malls
          /\ call' = [kind |-> "_upsert_mall", mall_data |-> mall_data]
    /\ clock' = clock + 1
    /\ UNCHANGED <<_job_state, next_job, run, stores, mall_stores, response,
                   fetched, outcome>>

SpecMall == Init /\ [][UpsertMallCall]_vars

\* ------------------------------------------------------ _normalize on its own
\* Every string of at most MaxNameLen characters over a small alphabet: a letter
\* in lower and in upper case, a digit, a punctuation mark, and the two
\* characters beyond ASCII whose lower case holds an ASCII letter
NameAlphabet == {"a", "A", "1", "-", KelvinSign, CapitalIDot}

Names == UNION {[1..n -> NameAlphabet] : n \in 0..MaxNameLen}

NormalizeCall ==
    /\ \E name \in Names :
          call' = [kind |-> "_normalize", name |-> name, result |-> _normalize(name)]
    /\ UNCHANGED <<_job_state, next_job, run, malls, stores, mall_stores, clock,
                   response, fetched, outcome>>

SpecNormalize == Init /\ [][NormalizeCall]_vars

\* ------------------------------------------------ region resolution on its own
\* The mall_data of either loop for a listed mall, a region map and an address:
\* no address, six digits of every two-digit prefix, and addresses with a word
\* before the digits, with fewer than six digits, with a shorter run of digits
\* before the six, and with more than six digits
DigitOf(n) == IF n = 0 THEN "0" ELSE DigitChar[n]

PostalCode(prefix) ==
    <<DigitOf(prefix \div 10), DigitOf(prefix % 10), "0", "0", "0", "1">>

Addresses ==
    {PostalCode(prefix) : prefix \in 0..99}
        \cup {<<>>,
              RawMall(1).address,
              <<"1", "2", "3", "4", "5">>,
              <<"1", "2", " ">> \o PostalCode(53),
              <<"6">> \o PostalCode(12)}

BuildMallDataCall ==
    /\ \E k \in 1..2 : \E address \in Addresses : \E wiki_map \in WikiMaps :
          call' = [kind     |-> "_build_mall_data",
                   name     |-> RawMall(k).name,
                   address  |-> address,
                   wiki_map |-> wiki_map,
                   region   |-> _build_mall_data(
                                    [RawMall(k) EXCEPT !.address = address],
                                    wiki_map).region]
    /\ UNCHANGED <<_job_state, next_job, run, malls, stores, mall_stores, clock,
                   response, fetched, outcome>>

CapitaLandMallDataCall ==
    /\ \E k \in 1..2 : \E address \in Addresses : \E wiki_map \in WikiMaps :
          call' = [kind     |-> "mall_data",
                   name     |-> RawMall(k).name,
                   address  |-> address,
                   wiki_map |-> wiki_map,
                   region   |-> CapitaLandMallData(
                                    [RawMall(k) EXCEPT !.address = address],
                                    wiki_map).region]
    /\ UNCHANGED <<_job_state, next_job, run, malls, stores, mall_stores, clock,
                   response, fetched, outcome>>

NextRegion ==
    \/ BuildMallDataCall
    \/ CapitaLandMallDataCall

SpecRegion == Init /\ [][NextRegion]_vars

\* ------------------------------------------------ floor derivation on its own
\* A missing unit, every string of at most MaxUnitLen characters over '#', two
\* digits, '-' and a letter, and three units as directories spell them
UnitAlphabet == {"#", "0", "3", "-", "B"}

Units ==
    {None} \cup UNION {[1..n -> UnitAlphabet] : n \in 0..MaxUnitLen}
           \cup {<<"#", "0", "3", "-", "2", "4", "A">>,
                 <<"#", "9", "-", "0", "1">>,
                 <<"B", "1", "-", "0", "2">>}

ParseFloorCall ==
    /\ \E unit \in Units :
          call' = [kind  |-> "_parse_floor_from_unit",
                   unit  |-> unit,
                   floor |-> _parse_floor_from_unit(unit)]
    /\ UNCHANGED <<_job_state, next_job, run, malls, stores, mall_stores, clock,
                   response, fetched, outcome>>

SpecFloor == Init /\ [][ParseFloorCall]_vars

\* ---------------------------------------------------------- _http_get on its own
MAX_RETRIES == 3

\* What session.get does on one attempt: it raises a RequestException (error), or
\* returns a response with a status
TransportError == [error |-> TRUE, status |-> 0]

Answer(status) == [error |-> FALSE, status |-> status]

AttemptAnswers ==
    {TransportError} \cup {Answer(status) : status \in {200, 204, 304, 404, 429, 503}}

\* as RaisesForStatus, of a response that never raises
RaisesForNoStatus(status) == FALSE

\* resp.raise_for_status() raises an HTTPError, which is a RequestException
RaisesForStatus(status) == status \in 400..599

\* what _http_get returns: None, or a response
HttpNone == [ok |-> FALSE, status |-> 0]

HttpResponse(status) == [ok |-> TRUE, status |-> status]

\* as BackOff429, with the wait of the other failures
BackOff429AsError(attempt) == 2 ^ attempt

\* wait = 2 ** (attempt + 1)
BackOff429(attempt) == 2 ^ (attempt + 1)

\* for attempt in range(MAX_RETRIES), from `attempt` on; answers[a + 1] is what
\* session.get does on attempt a, sleeps the time.sleep calls made so far, each
\* with the attempt it follows.  The result holds what is returned, the number
\* of GETs made and the sleeps.
RECURSIVE HttpLoop(_, _, _)
HttpLoop(answers, attempt, sleeps) ==
    IF attempt >= MAX_RETRIES
    THEN [resp |-> HttpNone, attempts |-> attempt, sleeps |-> sleeps]
    ELSE LET answer == answers[attempt + 1]
         IN  IF ~answer.error /\ answer.status = 429
             THEN HttpLoop(answers, attempt + 1,
                           Append(sleeps, [attempt |-> attempt,
                                           wait    |-> BackOff429(attempt)]))
             ELSE IF answer.error \/ RaisesForStatus(answer.status)
             THEN HttpLoop(answers, attempt + 1,
                           IF attempt < MAX_RETRIES - 1
                           THEN Append(sleeps, [attempt |-> attempt,
                                                wait    |-> 2 ^ attempt])
                           ELSE sleeps)
             ELSE [resp |-> HttpResponse(answer.status), attempts |-> attempt + 1,
                   sleeps |-> sleeps]

_http_get(answers) == HttpLoop(answers, 0, <<>>)

HttpGetCall ==
    /\ \E answers \in [1..MAX_RETRIES -> AttemptAnswers] :
          \E got \in {_http_get(answers)} :
              call' = [kind |-> "_http_get", answers |-> answers, resp |-> got.resp,
                       attempts |-> got.attempts, sleeps |-> got.sleeps]
    /\ UNCHANGED <<_job_state, next_job, run, malls, stores, mall_stores, clock,
                   response, fetched, outcome>>

SpecHttp == Init /\ [][HttpGetCall]_vars

\* ------------------------------------------------------ whole runs, one by one
\* Runs that do not overlap, each from its first line to its last in one step,
\* with storage up.  The upstream data of a run is what the three list fetches
\* answer and, for the k-th listed mall, what its store-directory fetch does.
CapitaLandListsWide ==
    CapitaLandLists \cup
        {<<[name |-> <<"M", "1">>, slug |-> <<"m", "-", "1">>, address |-> <<>>]>>}

Answers ==
    {[threw |-> TRUE, stores |-> <<>>],
     [threw |-> FALSE, stores |-> <<StoreAb>>],
     [threw |-> FALSE, stores |-> <<StoreAB, StoreQ>>]}

Upstreams ==
    UNION {UNION {{[raw_malls        |-> raw_malls,
                    wiki_map         |-> wiki_map,
                    capitaland_malls |-> capitaland_malls,
                    directories      |-> directories] :
                      wiki_map \in WikiMaps,
                      directories \in [1..(Len(raw_malls) + Len(capitaland_malls))
                                          -> Answers]} :
                  capitaland_malls \in CapitaLandListsWide} :
           raw_malls \in MallLists}

\* One mall loop (phase 2, or phase 3 if capitaland), from its k-th entry on;
\* db holds the three tables and the clock, first is the place of the loop's
\* first mall among the listed ones
RECURSIVE MallLoop(_, _, _, _, _, _)
MallLoop(db, entries, k, first, upstream, capitaland) ==
    IF k > Len(entries) THEN db
    ELSE LET e == entries[k]
             mall_data == IF capitaland
                          THEN CapitaLandMallData(e, upstream.wiki_map)
                          ELSE _build_mall_data(e, upstream.wiki_map)
             r == _upsert_mall(db.malls, mall_data, db.clock + 1)
             db1 == [db EXCEPT !.malls = r.malls,
                               !.clock = IF Truthy(Strip(mall_data.name))
                                         THEN @ + 1 ELSE @]
             answer == upstream.directories[first + k - 1]
             saved == SaveStores([stores |-> db.stores, mall_stores |-> db.mall_stores],
                                 r.mall, answer.stores, 1, 0)
         IN  IF ~capitaland /\ ~Truthy(Strip(e.name))
             THEN MallLoop(db, entries, k + 1, first, upstream, capitaland)
             ELSE IF r.mall = NoId \/ answer.threw
             THEN MallLoop(db1, entries, k + 1, first, upstream, capitaland)
             ELSE MallLoop([db1 EXCEPT !.stores = saved.stores,
                                       !.mall_stores = saved.mall_stores],
                           entries, k + 1, first, upstream, capitaland)

\* the tables and the clock after run_gather_job against the upstream data
GatherAll(db, upstream) ==
    IF upstream.raw_malls = <<>> THEN db
    ELSE MallLoop(MallLoop(db, upstream.raw_malls, 1, 1, upstream, FALSE),
                  upstream.capitaland_malls, 1, Len(upstream.raw_malls) + 1,
                  upstream, TRUE)

\* the tracker after run_gather_job(job_id) against the upstream data
GatherTracker(job_id, upstream) ==
    IF upstream.raw_malls = <<>>
    THEN [job_id |-> job_id, status |-> "error", total_malls |-> 0,
          completed_malls |-> 0, current_mall |-> Lit("Fetching mall list..."),
          error |-> Lit("Failed to scrape mall list from singmalls.app")]
    ELSE LET total == Len(upstream.raw_malls) + Len(upstream.capitaland_malls)
         IN  [job_id |-> job_id, status |-> "done", total_malls |-> total,
              completed_malls |-> total, current_mall |-> None, error |-> None]

\* a request is accepted and its run goes from start to end; `again` says that
\* the run before it had the same upstream data
GatherRun ==
    /\ next_job < MaxRuns
    /\ next_job' = next_job + 1
    /\ \E upstream \in Upstreams :
          \E db \in {GatherAll([malls |-> malls, stores |-> stores,
                                mall_stores |-> mall_stores, clock |-> clock],
                               upstream)} :
              /\ malls' = db.malls
              /\ stores' = db.stores
              /\ mall_stores' = db.mall_stores
              /\ clock' = db.clock
              /\ _job_state' = GatherTracker(uuid4(next_job + 1), upstream)
              /\ call' = [kind     |-> "run_gather_job",
                          upstream |-> upstream,
                          again    |-> /\ call.kind = "run_gather_job"
                                       /\ call.upstream = upstream]
    /\ UNCHANGED <<run, response, fetched, outcome>>

SpecRuns == Init /\ [][GatherRun]_vars

\* ------------------------------------------------- one run, call by call
\* What one run_gather_job does, as the sequence of the calls it makes that reach
\* outside it: its _update_state calls, its fetches, its _upsert_mall calls and
\* its sleeps.  The upstream data of the run is what the list fetches answer and
\* which call, if any, raises an exception that leaves the try block: fault 1, 2
\* or 3 for the fetch of that phase-1 list, 3 + k for the _upsert_mall of the
\* k-th listed mall, 0 for none.
INTER_REQUEST_DELAY == 1

PrimaryLists == {[k \in 1..n |-> RawMall(k)] : n \in 0..MaxMalls}

CapitaLandEntry(name, slug) == [name |-> name, slug |-> slug, address |-> <<>>]

\* _scrape_capitaland_mall_list: one entry per slug, the name blank for a slug of
\* hyphens
SecondaryEntries ==
    {CapitaLandEntry(<<"M", "3">>, <<"m", "3">>),
     CapitaLandEntry(<<"M", "4">>, <<"m", "4">>),
     CapitaLandEntry(Humanise(<<"-">>), <<"-">>)}

SecondaryLists ==
    {list \in UNION {[1..n -> SecondaryEntries] : n \in 0..MaxMalls} :
        \A a, b \in DOMAIN list : a # b => list[a].slug # list[b].slug}

RunInputs ==
    {upstream \in [raw_malls : PrimaryLists, capitaland_malls : SecondaryLists,
                   fault : 0..(3 + 2 * MaxMalls)] :
        upstream.fault <= 3 + Len(upstream.raw_malls) + Len(upstream.capitaland_malls)}

\* one call: what is called, for the mall at which place of the two lists and
\* with which slug (0 and empty: for none), with which argument (the kwargs of
\* _update_state, the seconds of time.sleep)
Event(op, place, slug, arg) == [op |-> op, place |-> place, slug |-> slug, arg |-> arg]

\* except Exception as e: _update_state(status="error", error=str(e))
ExceptEvents ==
    <<Event("update", 0, <<>>, [status |-> "error", error |-> Lit("connection lost")])>>

\* as ListedMall, with the CapitaLand malls ahead of the SingMalls ones
ListedMallSecondaryFirst(upstream, k) ==
    LET n == Len(upstream.capitaland_malls)
    IN  IF k > n THEN upstream.raw_malls[k - n]
        ELSE upstream.capitaland_malls[k]

\* the k-th mall the two loops come to: raw_malls[i] of the first loop, then
\* capitaland_malls[j] of the second
ListedMall(upstream, k) ==
    LET singmalls_done == Len(upstream.raw_malls)
    IN  IF k > singmalls_done THEN upstream.capitaland_malls[k - singmalls_done]
        ELSE upstream.raw_malls[k]

\* as CompletedBefore, counting the mall that is about to be processed
CompletedWith(k) == k

\* completed_malls=i, completed_malls=singmalls_done + j: the malls listed
\* before the k-th
CompletedBefore(k) == k - 1

\* the two mall loops from the k-th listed mall on, and the done update after
\* them
RECURSIVE MallEvents(_, _)
MallEvents(upstream, k) ==
    LET singmalls_done == Len(upstream.raw_malls)
        total == singmalls_done + Len(upstream.capitaland_malls)
    IN  IF k > total
        THEN <<Event("update", 0, <<>>, [status |-> "done", completed_malls |-> total,
                                      current_mall |-> None])>>
        ELSE LET capitaland == k > singmalls_done
                 e == ListedMall(upstream, k)
                 mall_name == IF capitaland THEN e.name ELSE Strip(e.name)
                 current == IF capitaland THEN Lit("[CapitaLand] ") \o mall_name
                            ELSE mall_name
             IN  IF ~capitaland /\ ~Truthy(mall_name)
                 THEN MallEvents(upstream, k + 1)
                 ELSE <<Event("update", k, e.slug,
                              [current_mall |-> current,
                               completed_malls |-> CompletedBefore(k)]),
                        Event("_upsert_mall", k, e.slug, 0)>>
                      \o IF upstream.fault = 3 + k THEN ExceptEvents
                         ELSE IF ~Truthy(Strip(mall_name))
                         THEN MallEvents(upstream, k + 1)
                         ELSE <<Event("fetch stores", k, e.slug, 0),
                                Event("sleep", k, e.slug, INTER_REQUEST_DELAY)>>
                              \o MallEvents(upstream, k + 1)

\* the try block from the fetch of the region map on
RegionEvents(upstream) ==
    <<Event("update", 0, <<>>, [current_mall |-> Lit("Fetching region data...")]),
      Event("fetch region map", 0, <<>>, 0)>>
    \o IF upstream.fault = 2 THEN ExceptEvents
       ELSE <<Event("update", 0, <<>>,
                    [current_mall |-> Lit("Fetching CapitaLand mall list...")]),
              Event("fetch CapitaLand mall list", 0, <<>>, 0)>>
            \o IF upstream.fault = 3 THEN ExceptEvents
               ELSE <<Event("update", 0, <<>>,
                            [total_malls |-> Len(upstream.raw_malls)
                                               + Len(upstream.capitaland_malls)])>>
                    \o MallEvents(upstream, 1)

RunEvents(upstream) ==
    <<Event("update", 0, <<>>, [job_id |-> uuid4(1), status |-> "running",
                             total_malls |-> 0, completed_malls |-> 0,
                             current_mall |-> None, error |-> None]),
      Event("update", 0, <<>>, [current_mall |-> Lit("Fetching mall list...")]),
      Event("fetch mall list", 0, <<>>, 0)>>
    \o IF upstream.fault = 1 THEN ExceptEvents
       ELSE IF ~(upstream.raw_malls # <<>>)
       THEN <<Event("update", 0, <<>>,
                    [status |-> "error",
                     error  |-> Lit("Failed to scrape mall list from singmalls.app")])>>
       ELSE RegionEvents(upstream)

RunEventsCall ==
    /\ \E upstream \in RunInputs :
          call' = [kind |-> "run events", upstream |-> upstream,
                   events |-> RunEvents(upstream)]
    /\ UNCHANGED <<_job_state, next_job, run, malls, stores, mall_stores, clock,
                   response, fetched, outcome>>

SpecEvents == Init /\ [][RunEventsCall]_vars

\* ------------------------------------- the response handler of a browser page
\* handle_response of _scrape_capitaland_stores, called by the browser page for
\* every response it receives.  The handler of one response blocks in
\* response.json() until the body has come; the page dispatches the responses
\* that arrive meanwhile, each to a handler call of its own.
\* A URL and a content type are the sequences of their parts.
NoData == [json |-> "None", totalcount |-> 0, has_totalcount |-> FALSE]

\* response.json(): a dict with or without the key totalcount, another JSON
\* value, or a body that is no JSON, for which it raises
Dict(n) == [json |-> "dict", totalcount |-> n, has_totalcount |-> TRUE]
DictWithoutCount == [json |-> "dict", totalcount |-> 0, has_totalcount |-> FALSE]
JsonList == [json |-> "list", totalcount |-> 0, has_totalcount |-> FALSE]
NotJson == [json |-> "raises", totalcount |-> 0, has_totalcount |-> FALSE]

PageResponse(url, ct, body) == [url |-> url, ct |-> ct, body |-> body]

PageResponses ==
    {PageResponse(<<"api-v1", "tenants", "1">>, <<"application", "json">>, Dict(250)),
     PageResponse(<<"api-v1", "tenants", "2">>, <<"application", "json">>, Dict(7)),
     PageResponse(<<"api-v1", "tenants", "3">>, <<"application", "json">>,
                  DictWithoutCount),
     PageResponse(<<"api-v1", "tenants", "4">>, <<"application", "json">>, JsonList),
     PageResponse(<<"api-v1", "tenants", "5">>, <<"application", "json">>, NotJson),
     PageResponse(<<"api-v1", "tenants", "6">>, <<"text", "html">>, Dict(9)),
     PageResponse(<<"api-v1", "tenants", "7">>, <<>>, Dict(9)),
     PageResponse(<<"api-v1", "categories">>, <<"application", "json">>, Dict(9)),
     PageResponse(<<"tenants", "8">>, <<"application", "json">>, Dict(9)),
     PageResponse(<<"stores.html">>, <<"text", "html">>, NotJson)}

\* first_api_url = None, first_data = None, page.on("response", handle_response)
NewPage ==
    /\ call.kind = "none"
    /\ call' = [kind |-> "page", arrived |-> <<>>, in_json |-> {},
                first_api_url |-> None, first_data |-> NoData]
    /\ UNCHANGED <<_job_state, next_job, run, malls, stores, mall_stores, clock,
                   response, fetched, outcome>>

\* the three early returns of handle_response are not taken
PassesChecks(response_) ==
    /\ ~(call.first_data # NoData)
    /\ ~("json" \notin Range(response_.ct))
    /\ ~("api-v1" \notin Range(response_.url) \/ "tenants" \notin Range(response_.url))

\* a response arrives: handle_response(response) up to its call of response.json()
HandleResponse ==
    /\ call.kind = "page"
    /\ Len(call.arrived) < MaxResponses
    /\ \E response_ \in PageResponses \ Range(call.arrived) :
          call' = [call EXCEPT !.arrived = Append(@, response_),
                               !.in_json = IF PassesChecks(response_)
                                           THEN @ \cup {response_} ELSE @]
    /\ UNCHANGED <<_job_state, next_job, run, malls, stores, mall_stores, clock,
                   response, fetched, outcome>>

\* response.json() returns or raises: the rest of handle_response(response)
JsonReturns ==
    /\ call.kind = "page"
    /\ \E response_ \in call.in_json :
          LET data == response_.body
          IN  call' = IF data.json # "raises" /\ data.json = "dict" /\ data.has_totalcount
                      THEN [call EXCEPT !.in_json = @ \ {response_},
                                        !.first_api_url = response_.url,
                                        !.first_data = data]
                      ELSE [call EXCEPT !.in_json = @ \ {response_}]
    /\ UNCHANGED <<_job_state, next_job, run, malls, stores, mall_stores, clock,
                   response, fetched, outcome>>

NextCapture ==
    \/ NewPage
    \/ HandleResponse
    \/ JsonReturns

SpecCapture == Init /\ [][NextCapture]_vars

\* --------------------------------- the pages of a CapitaLand store directory
\* _scrape_capitaland_stores after the wait, with a first response captured.
\* The stores parsed from a response are taken as given.
PAGE_SIZE == 100

\* range(start, stop, step), step positive
PyRange(start, stop, step) ==
    IF stop <= start THEN <<>>
    ELSE [i \in 1..((stop - start + step - 1) \div step) |-> start + (i - 1) * step]

CursorSegment == "cl%3Apgcursor"

\* a URL part that is \d+, and one that is \d+\.json
DigitParts == {"1", "101"}
DigitJsonParts == {"100.json", "50.json"}

\* re.sub(r"/cl%3Apgcursor/\d+/\d+\.json$", "", first_api_url)
StripCursor(url) ==
    IF /\ Len(url) >= 3
       /\ url[Len(url) - 2] = CursorSegment
       /\ url[Len(url) - 1] \in DigitParts
       /\ url[Len(url)] \in DigitJsonParts
    THEN SubSeq(url, 1, Len(url) - 3)
    ELSE url

\* f"{base_url}/cl%3Apgcursor/{start}/100.json"
PageUrl(base_url, start) == [base_url |-> base_url, start |-> start, size |-> PAGE_SIZE]

\* as Cursors, with the cursor of the first follow-up page at the page size
CursorsFromPageSize(total_count) == PyRange(PAGE_SIZE, total_count + 1, PAGE_SIZE)

\* range(101, total_count + 1, 100)
Cursors(total_count) == PyRange(PAGE_SIZE + 1, total_count + 1, PAGE_SIZE)

\* the one store a page is taken to hold: that of the n-th follow-up page
PageStore(n) == [name |-> <<"P", DigitChar[n]>>, category |-> None, unit |-> None]

\* what page.evaluate and the parse of its result do for the n-th follow-up
\* page: one of them raises, or the page's stores come out of the parse
PageAnswers(n) ==
    {[raises |-> TRUE, stores |-> <<>>],
     [raises |-> FALSE, stores |-> <<>>],
     [raises |-> FALSE, stores |-> <<PageStore(n)>>]}

\* for start in range(101, total_count + 1, 100), from the n-th start on
RECURSIVE PageLoop(_, _, _, _, _, _)
PageLoop(base_url, starts, n, answers, all_stores, requests) ==
    IF n > Len(starts) THEN [stores |-> all_stores, requests |-> requests]
    ELSE LET page_url == PageUrl(base_url, starts[n])
         IN  IF answers[n].raises
             THEN [stores |-> all_stores, requests |-> Append(requests, page_url)]
             ELSE PageLoop(base_url, starts, n + 1, answers,
                           all_stores \o answers[n].stores, Append(requests, page_url))

\* what is returned, and the page requests made on the way
Paginate(first_api_url, first_data, first_stores, answers) ==
    LET all_stores == first_stores
        total_count == IF first_data.has_totalcount THEN first_data.totalcount ELSE 0
        base_url == StripCursor(first_api_url)
    IN  IF total_count > PAGE_SIZE /\ base_url # first_api_url
        THEN PageLoop(base_url, Cursors(total_count), 1, answers, all_stores, <<>>)
        ELSE [stores |-> all_stores, requests |-> <<>>]

TenantsUrl == <<"api-v1", "tenants", "plaza">>

FirstUrls ==
    {TenantsUrl \o <<CursorSegment, "1", "100.json">>,
     TenantsUrl \o <<CursorSegment, "1", "50.json">>,
     TenantsUrl \o <<"all.json">>,
     TenantsUrl}

TotalCounts == {0, 7, 100, 101, 200, 201, 250, 301, 400}

FirstPageStore == [name |-> <<"P", "0">>, category |-> None, unit |-> None]

\* one call for one directory page
PaginateCall ==
    /\ call.kind = "none"
    /\ \E first_api_url \in FirstUrls, total_count \in TotalCounts,
          first_stores \in {<<>>, <<FirstPageStore>>} :
          \E answers \in {f \in [1..MaxPages -> UNION {PageAnswers(n) : n \in 1..MaxPages}] :
                              \A n \in 1..MaxPages : f[n] \in PageAnswers(n)} :
              \E got \in {Paginate(first_api_url, Dict(total_count), first_stores,
                                    answers)} :
                  call' = [kind |-> "paginate", first_api_url |-> first_api_url,
                           total_count |-> total_count, first_stores |-> first_stores,
                           answers |-> answers, stores |-> got.stores,
                           requests |-> got.requests]
    /\ UNCHANGED <<_job_state, next_job, run, malls, stores, mall_stores, clock,
                   response, fetched, outcome>>

SpecPages == Init /\ [][PaginateCall]_vars

\* ------------------------------------------------------------------ claims
\* run_gather_job(uuid4(j)) has been entered and has not returned
Executing(j) == run[j].pc \notin {"free", "queued", "returned"}

\* the job whose id the tracker holds (0 if it holds none)
JobOf(job_id) == IF \E j \in Jobs : uuid4(j) = job_id
                 THEN CHOOSE j \in Jobs : uuid4(j) = job_id ELSE 0

\* C1: under any interleaving of start requests and background runs, at most
\* one run_gather_job is executing at a time.
C1_AtMostOneRun == Cardinality({j \in Jobs : Executing(j)}) <= 1

\* C2: a start request made while the tracker status is running returns the
\* job_id the tracker holds, which is that of a run in flight, allocates no id,
\* schedules no task and leaves every tracker field unchanged.
C2_StartWhileRunning ==
    [][(_job_state.status = "running" /\ response'.kind = "gather")
        => /\ response'.message = "Job already running"
           /\ response'.job_id = _job_state.job_id
           /\ JobOf(_job_state.job_id) \in Jobs
           /\ Executing(JobOf(_job_state.job_id))
           /\ outcome[JobOf(_job_state.job_id)] = "none"
           /\ next_job' = next_job
           /\ run' = run
           /\ _job_state' = _job_state]_vars

\* a start request was answered with the id of a run that is half-way through
C2_Witness ==
    /\ response.kind = "gather"
    /\ response.message = "Job already running"
    /\ _job_state.status = "running"
    /\ _job_state.completed_malls = 1
    /\ _job_state.total_malls = 2

StatusEdges == {<<"idle", "running">>, <<"running", "done">>, <<"running", "error">>,
                <<"done", "running">>, <<"error", "running">>}

\* C3: the tracker status only ever changes along idle->running, running->done,
\* running->error, done->running and error->running.
C3_StatusEdges ==
    [][_job_state'.status # _job_state.status
        => <<_job_state.status, _job_state'.status>> \in StatusEdges]_vars

C5_RunEnds ==
    \A j \in Jobs : (run[j].pc = "list") ~> (outcome[j] \in {"done", "error"})

\* a run in which an exception left the try block has written error
C5_Witness ==
    \E j \in Jobs : run[j].pc = "finally" /\ run[j].fault /\ outcome[j] = "error"

\* C6: if the primary source's mall list is empty, the run takes the status from
\* running straight to error, with a non-empty message that names the primary
\* source, and completed_malls is 0 when it does.
C6_EmptyListFails ==
    [][\A j \in Jobs :
          (run[j].pc = "check" /\ run[j].raw_malls = <<>> /\ run'[j].pc # "check")
          => /\ _job_state.status = "running"
             /\ _job_state'.status = "error"
             /\ _job_state'.error = Lit("Failed to scrape mall list from singmalls.app")
             /\ _job_state'.completed_malls = 0]_vars

\* C8: whenever the tracker status is done, completed_malls equals total_malls,
\* and total_malls is the number of malls of the two lists of the run that
\* wrote done.
C8_DoneCounts ==
    _job_state.status = "done"
    => /\ _job_state.completed_malls = _job_state.total_malls
       /\ \A j \in Jobs :
              (run[j].pc = "finally" /\ outcome[j] = "done")
              => _job_state.total_malls =
                     Len(run[j].raw_malls) + Len(run[j].capitaland_malls)

FreshState(j) == [job_id |-> uuid4(j), status |-> "running", total_malls |-> 0,
                  completed_malls |-> 0, current_mall |-> None, error |-> None]

\* C9: a start request made while the status is idle, done or error is accepted
\* with a job_id not handed out before, and when that run begins the tracker is
\* replaced wholesale by the fresh record of that job.
C9_FreshStart ==
    [][/\ (_job_state.status # "running" /\ response'.kind = "gather")
          => /\ response'.message = "Data gathering started"
             /\ response'.job_id = uuid4(next_job')
             /\ \A k \in 1..next_job : uuid4(k) # response'.job_id
             /\ run[next_job'].pc = "free"
             /\ run'[next_job'].pc = "queued"
       /\ \A j \in Jobs :
             (run[j].pc = "queued" /\ run'[j].pc # "queued")
             => _job_state' = FreshState(j)]_vars

\* the second run has begun after the first ended in error: nothing of the
\* first run's result is left
C9_Witness ==
    /\ outcome[1] = "error"
    /\ run[1].pc = "returned"
    /\ run[2].pc = "list"
    /\ _job_state = FreshState(2)

\* the malls job j's run has listed, in the order it goes through them
Listed(j) == run[j].raw_malls \o run[j].capitaland_malls

HasMall(name) == \E m \in malls : m.name = Strip(name)

\* the row of the store named store_name, and its row in the mall
Recorded(mall, store_name, in_stores, in_mall_stores) ==
    \E s \in in_stores : \E ms \in in_mall_stores :
        /\ s.normalized_name = _normalize(Strip(store_name))
        /\ ms.mall_id = mall
        /\ ms.store_id = s.id

\* A run with a non-empty mall list, in which nothing but store-directory
\* fetches has failed, ends in done without an exception, and every mall it
\* listed (every mall with a name, if named_only) has a Mall row.
C7_AtTheEnd(j, named_only) ==
    (run[j].pc = "finally" /\ run[j].raw_malls # <<>> /\ ~run[j].fault)
    => /\ outcome[j] = "done"
       /\ run[j].exc = None
       /\ \A k \in DOMAIN Listed(j) :
              (named_only => Truthy(Strip(Listed(j)[k].name)))
              => HasMall(Listed(j)[k].name)

\* A store-directory fetch that throws adds no row and does not end the run; one
\* that returns, with storage up, has every store of the directory recorded for
\* the mall; and no step takes a Mall, Store or MallStore row away.
C7_AtEachMall ==
    /\ \A j \in Jobs :
          /\ (fetched'.kind = "threw" /\ fetched'.job = j /\ Moves(j))
             => /\ mall_stores' = mall_stores
                /\ stores' = stores
                /\ run'[j].pc \in {"singmalls", "capitaland_malls"}
                /\ run'[j].exc = None
          /\ (fetched'.kind = "stores" /\ fetched'.job = j /\ Moves(j)
                  /\ fetched'.failAt = 0)
             => \A k \in DOMAIN fetched'.directory :
                    Recorded(run[j].mall, fetched'.directory[k].name,
                             stores', mall_stores')
    /\ mall_stores \subseteq mall_stores'
    /\ stores \subseteq stores'
    /\ \A m \in malls : \E n \in malls' : n.id = m.id /\ n.name = m.name

\* C7: for any non-empty mall list in which store-directory fetches
\* throw, the run still ends in done, every listed mall has a Mall row, a
\* failing mall gains no MallStore row, a mall whose fetch returned has its
\* stores recorded, and no exception leaves the run.
C7_EveryListedMall ==
    [](\A j \in Jobs : C7_AtTheEnd(j, FALSE)) /\ [][C7_AtEachMall]_vars

\* The same holds of every listed mall whose name is not blank: the one listed
\* mall a run leaves without a Mall row is a CapitaLand entry whose name, made
\* from its slug, is blank.
C7_EveryNamedMall ==
    [](\A j \in Jobs : C7_AtTheEnd(j, TRUE)) /\ [][C7_AtEachMall]_vars

\* the fetch for the second of two listed malls has just thrown, the first has
\* its store recorded, and the run goes on to its end
C7_Witness ==
    \E j \in Jobs :
        /\ fetched = [kind |-> "threw", job |-> j]
        /\ run[j].pc = "capitaland_malls"
        /\ Len(run[j].raw_malls) = 1
        /\ Len(run[j].capitaland_malls) = 1
        /\ run[j].i = 1
        /\ HasMall(Listed(j)[1].name)
        /\ HasMall(Listed(j)[2].name)
        /\ \E m \in malls :
               /\ m.name = Listed(j)[1].name
               /\ \E ms \in mall_stores : ms.mall_id = m.id
        /\ \E m \in malls :
               /\ m.name = Listed(j)[2].name
               /\ \A ms \in mall_stores : ms.mall_id # m.id

\* C10: after any sequence of _upsert_mall_store calls there is at most one
\* MallStore row per (mall, store) pair, and a call for a pair that has a row
\* changes no row, whatever floor and unit it is given.
C10_OneRowPerPair ==
    /\ [](\A a \in mall_stores : \A b \in mall_stores :
              (a.mall_id = b.mall_id /\ a.store_id = b.store_id) => a = b)
    /\ [][/\ mall_stores \subseteq mall_stores'
          /\ (/\ call'.kind = "_upsert_mall_store"
              /\ \E ms \in mall_stores :
                     ms.mall_id = call'.mall /\ ms.store_id = call'.store)
             => mall_stores' = mall_stores]_vars

\* a call for a pair that has a row, with another floor and another unit
C10_Witness ==
    /\ call.kind = "_upsert_mall_store"
    /\ \E ms \in mall_stores :
           /\ ms.mall_id = call.mall
           /\ ms.store_id = call.store
           /\ ms.floor # call.floor
           /\ ms.unit_number # call.unit
           /\ Truthy(call.floor)
           /\ Truthy(ms.floor)

\* C11: after any sequence of _upsert_store calls there is exactly one Store per
\* normalized name that was upserted; the call that finds no Store of its
\* normalized name creates it with the name and category given, and a call that
\* finds one changes no Store; no step changes a Store that exists.
C11_FirstWriterWins ==
    /\ [](\A a \in stores : \A b \in stores :
              a.normalized_name = b.normalized_name => a = b)
    /\ [][/\ stores \subseteq stores'
          /\ call'.kind = "_upsert_store"
             => LET norm == _normalize(call'.store_name)
                IN  /\ \E st \in stores' : st.normalized_name = norm
                    /\ IF \E st \in stores : st.normalized_name = norm
                       THEN stores' = stores
                       ELSE \E st \in stores' :
                                /\ stores' = stores \cup {st}
                                /\ st.name = call'.store_name
                                /\ st.category = call'.category
                                /\ st.normalized_name = norm]_vars

\* a call with another name and another category for a normalized name that
\* has a Store
C11_Witness ==
    /\ call.kind = "_upsert_store"
    /\ \E st \in stores :
           /\ st.normalized_name = _normalize(call.store_name)
           /\ st.name # call.store_name
           /\ st.category # call.category
           /\ Truthy(st.category)
           /\ Truthy(call.category)

\* C12: upserting a Mall whose name exists creates no second row and changes no
\* other row; each of address, region and website, independently, keeps its
\* value when the one supplied is empty or missing and takes the supplied one
\* when that is non-empty; last_updated advances on every such upsert.
C12_MallOverwrite ==
    [][\A old \in malls :
          (call'.kind = "_upsert_mall" /\ old.name = Strip(call'.mall_data.name))
          => /\ Cardinality(malls') = Cardinality(malls)
             /\ \E new \in malls' :
                    /\ malls' \ {new} = malls \ {old}
                    /\ new.id = old.id
                    /\ new.name = old.name
                    /\ \A f \in {"address", "region", "website"} :
                           new[f] = IF call'.mall_data[f] \in {None, <<>>}
                                    THEN old[f] ELSE call'.mall_data[f]
                    /\ new.last_updated > old.last_updated]_vars

\* an upsert with every value empty or missing of a Mall that has all three
\* values: nothing but last_updated has changed
C12_Witness ==
    /\ call.kind = "_upsert_mall"
    /\ call.mall_data.address = None
    /\ call.mall_data.region = <<>>
    /\ call.mall_data.website = <<>>
    /\ \E m \in malls :
           /\ m.name = Strip(call.mall_data.name)
           /\ m.region = North
           /\ Truthy(m.address)
           /\ Truthy(m.website)
           /\ m.last_updated = clock
           /\ clock > 1

\* a Mall row without its last_updated
Undated(m) == [id |-> m.id, name |-> m.name, address |-> m.address,
               region |-> m.region, website |-> m.website]

\* C13: a run against the same upstream data as the run before it leaves the
\* Store and MallStore rows as they are, and the Mall rows as they are but for
\* last_updated.
C13_RerunChangesNothing ==
    [][(call'.kind = "run_gather_job" /\ call'.again)
        => /\ stores' = stores
           /\ mall_stores' = mall_stores
           /\ Cardinality(malls') = Cardinality(malls)
           /\ {Undated(m) : m \in malls'} = {Undated(m) : m \in malls}]_vars

\* the second of two runs against the same data, which list the same mall in
\* both sources and hold a store directory: only last_updated has moved
C13_Witness ==
    /\ call.kind = "run_gather_job"
    /\ call.again
    /\ mall_stores # {}
    /\ Len(call.upstream.raw_malls) = 1
    /\ Len(call.upstream.capitaland_malls) = 1
    /\ call.upstream.capitaland_malls[1].name = call.upstream.raw_malls[1].name
    /\ Cardinality(malls) = 1
    /\ \A m \in malls : m.last_updated = clock /\ clock = 4

\* every row of the three tables is still there after the step
RowsKept ==
    /\ stores \subseteq stores'
    /\ mall_stores \subseteq mall_stores'
    /\ \A m \in malls : \E n \in malls' : n.id = m.id /\ n.name = m.name

\* C14: when an exception escapes the phases of a run, the call that raised has
\* committed nothing; the run's next step sets status to error with the
\* exception's message as error, changes no row and queues no run; after it the
\* run only returns, and a run that has returned does nothing more; no step
\* takes away a row committed before.
C14_EscapedException ==
    [][/\ RowsKept
       /\ \A j \in Jobs :
             /\ (run[j].pc # "raised" /\ run'[j].pc = "raised")
                => /\ run'[j].exc \in ExcMessages
                   /\ <<malls', stores', mall_stores'>> = <<malls, stores, mall_stores>>
             /\ (run[j].pc = "raised" /\ Moves(j))
                => /\ _job_state'.status = "error"
                   /\ _job_state'.error = run[j].exc
                   /\ _job_state'.job_id = _job_state.job_id
                   /\ outcome'[j] = "error"
                   /\ run'[j].pc = "finally"
                   /\ next_job' = next_job
                   /\ \A k \in Jobs \ {j} : run'[k] = run[k]
                   /\ <<malls', stores', mall_stores'>> = <<malls, stores, mall_stores>>
             /\ (run[j].pc = "finally" /\ Moves(j)) => run'[j].pc = "returned"
             /\ run[j].pc = "returned" => run'[j] = run[j]]_vars

\* the upsert of the second mall has raised after the first mall and its store
\* were committed: the run has written error, and the rows are there
C14_Witness ==
    \E j \in Jobs :
        /\ run[j].pc = "finally"
        /\ run[j].fault
        /\ run[j].exc \in ExcMessages
        /\ _job_state.status = "error"
        /\ _job_state.error = run[j].exc
        /\ _job_state.completed_malls = 1
        /\ Cardinality(malls) = 1
        /\ stores # {}
        /\ mall_stores # {}

\* C15: each non-primary adapter answers empty when its source is unavailable
\* (fetch failure, missing payload, no merchants, playwright missing, browser
\* failure, no tenants response within the wait); an empty store directory adds
\* no row and lets the run go on to its next mall; and a run with a non-empty
\* primary list in which nothing has raised ends in done, whatever of these
\* results were empty.
C15_EmptyIsNotFatal ==
    /\ [](/\ \A resp \in WikiResponses :
                ~resp.ok => _scrape_wiki_region_map(resp) = <<>>
          /\ \A resp \in CapitaLandResponses :
                ~resp.ok => _scrape_capitaland_mall_list(resp) = <<>>
          /\ \A resp \in DirectoryResponses :
                (~resp.ok \/ resp.payload # "merchants")
                => _scrape_singmalls_stores(resp) = <<>>
          /\ \A session \in BrowserSessions :
                (~session.playwright \/ ~session.launched \/ ~session.captured)
                => _scrape_capitaland_stores(session) = <<>>
          /\ \A j \in Jobs :
                (run[j].pc = "finally" /\ run[j].raw_malls # <<>> /\ ~run[j].fault)
                => outcome[j] = "done")
    /\ [][\A j \in Jobs :
             (/\ fetched'.kind = "stores"
              /\ fetched'.job = j
              /\ fetched'.directory = <<>>)
             => /\ <<malls', stores', mall_stores'>> = <<malls, stores, mall_stores>>
                /\ run'[j].pc \in {"singmalls", "capitaland_malls"}
                /\ run'[j].exc = None]_vars

\* a run has written done with an empty region map, an empty CapitaLand list
\* and an empty directory for its one mall: the mall is there, without stores
C15_Witness ==
    \E j \in Jobs :
        /\ run[j].pc = "finally"
        /\ outcome[j] = "done"
        /\ run[j].raw_malls # <<>>
        /\ run[j].wiki_map = <<>>
        /\ run[j].capitaland_malls = <<>>
        /\ Cardinality(malls) = 1
        /\ mall_stores = {}
        /\ _job_state.status = "done"
        /\ _job_state.total_malls = 1

\* a name without its characters outside [a-zA-Z0-9], its letters in lower case
Skeleton(s) ==
    [i \in DOMAIN SelectSeq(s, LAMBDA c : c \in Range(LowerLetters)
                                             \cup Range(UpperLetters) \cup Digits)
        |-> Lower(SelectSeq(s, LAMBDA c : c \in Range(LowerLetters)
                                              \cup Range(UpperLetters) \cup Digits)[i])]

\* a name without a character beyond ASCII whose lower case holds an ASCII letter
PlainName(s) == \A i \in DOMAIN s : s[i] \notin {KelvinSign, CapitalIDot}

\* normalizing the result again gives the result, the result holds only
\* characters of [a-z0-9], and every name (every plain name, if plain_only) that
\* differs from the one given only in letter case or in characters outside
\* [a-zA-Z0-9] has the same result
NormalizeCollapses(plain_only) ==
    call.kind = "_normalize"
    => /\ _normalize(call.result) = call.result
       /\ \A i \in DOMAIN call.result :
              call.result[i] \in Range(LowerLetters) \cup Digits
       /\ \A other \in Names :
              (/\ Skeleton(other) = Skeleton(call.name)
               /\ plain_only => (PlainName(other) /\ PlainName(call.name)))
              => _normalize(other) = call.result

\* C16: normalize(normalize(s)) = normalize(s) for every string s, the result
\* holds only characters of [a-z0-9], and two names that differ only in letter
\* case or in characters outside [a-zA-Z0-9] have the same normalized form.
C16_NormalizeAll == NormalizeCollapses(FALSE)

\* C16 (amended): the same, where the two names hold neither the Kelvin sign
\* (U+212A) nor the capital I with a dot above (U+0130); idempotence and the
\* range of the result hold for every string.
C16_NormalizePlain == NormalizeCollapses(TRUE)

\* a name with an upper case letter and a punctuation mark was normalized to
\* the form of its lower case spelling without the mark
C16_Witness ==
    /\ call.kind = "_normalize"
    /\ call.name = <<"1", "-", "A">>
    /\ call.result = <<"1", "a">>
    /\ call.result = _normalize(<<"1", "a">>)

\* C17: the region of a mall is the region map's entry for its normalized name,
\* if there is one, whatever the address; otherwise the table's entry for the
\* first two digits of the first six digits in a row in the address (none, for a
\* prefix the table lacks); otherwise, with no six digits in a row or no address,
\* none.
C17_RegionChain ==
    call.kind \in {"_build_mall_data", "mall_data"}
    => LET norm == _normalize(call.name)
           runs == {i \in 1..Len(call.address) :
                      /\ i + 5 <= Len(call.address)
                      /\ \A k \in 0..5 : call.address[i + k] \in Digits}
           first == CHOOSE i \in runs : \A k \in runs : i <= k
       IN  IF norm \in DOMAIN call.wiki_map
           THEN call.region = call.wiki_map[norm]
           ELSE IF runs # {}
           THEN call.region = POSTAL_PREFIX_TO_REGION(
                                  10 * DigitVal(call.address[first])
                                      + DigitVal(call.address[first + 1]))
           ELSE call.region = None

\* a mall of the region map with an address of another region: the map wins
C17_Witness ==
    /\ call.kind = "_build_mall_data"
    /\ _normalize(call.name) \in DOMAIN call.wiki_map
    /\ call.address = RawMall(1).address
    /\ _infer_region_from_address(call.address) = Central
    /\ call.region = East

\* the number a string of digits spells
RECURSIVE DecimalValue(_)
DecimalValue(ds) ==
    IF ds = <<>> THEN 0
    ELSE 10 * DecimalValue(SubSeq(ds, 1, Len(ds) - 1)) + DigitVal(ds[Len(ds)])

\* C18: for a unit that is an optional '#', then one or more digits, then '-',
\* then anything, the floor is a string of digits without a leading zero (or
\* "0") that spells the same number as those digits; for every other unit, the
\* empty one and a missing one there is no floor.
C18_FloorFromUnit ==
    call.kind = "_parse_floor_from_unit"
    => LET unit == call.unit
           body == IF unit # None /\ unit # <<>> /\ unit[1] = "#"
                   THEN SubSeq(unit, 2, Len(unit)) ELSE unit
           n == IF unit = None THEN 0
                ELSE Cardinality({k \in 1..Len(body) :
                                    \A i \in 1..k : body[i] \in Digits})
       IN  IF unit # None /\ n >= 1 /\ Len(body) > n /\ body[n + 1] = "-"
           THEN /\ call.floor # None
                /\ Len(call.floor) >= 1
                /\ \A i \in DOMAIN call.floor : call.floor[i] \in Digits
                /\ Len(call.floor) = 1 \/ call.floor[1] # "0"
                /\ DecimalValue(call.floor) = DecimalValue(SubSeq(body, 1, n))
           ELSE call.floor = None

\* the floor of "#03-24A" is "3"
C18_Witness ==
    /\ call.kind = "_parse_floor_from_unit"
    /\ call.unit = <<"#", "0", "3", "-", "2", "4", "A">>
    /\ call.floor = <<"3">>

\* One _http_get call has made at most MAX_RETRIES GETs and has returned a
\* value: the response of the first attempt that succeeded, after exactly that
\* many GETs, or None after MAX_RETRIES GETs if none did.  An attempt succeeds
\* with a 2xx status (two_xx) or with any status but 429 that raise_for_status
\* lets through.
HttpGetReturns(two_xx) ==
    call.kind = "_http_get"
    => LET Succeeds(a) ==
               /\ ~call.answers[a].error
               /\ IF two_xx THEN call.answers[a].status \in 200..299
                  ELSE /\ call.answers[a].status # 429
                       /\ call.answers[a].status \notin 400..599
           good == {a \in 1..MAX_RETRIES : Succeeds(a)}
       IN  /\ call.attempts \in 1..MAX_RETRIES
           /\ call.resp.ok \in BOOLEAN
           /\ IF good # {}
              THEN \E a \in good :
                       /\ \A b \in good : a <= b
                       /\ call.attempts = a
                       /\ call.resp = HttpResponse(call.answers[a].status)
              ELSE /\ call.attempts = MAX_RETRIES
                   /\ call.resp = HttpNone

\* C19: one fetch call performs at most 3 GET attempts, returns the response of
\* the first attempt that succeeds with a 2xx status, and otherwise returns None
\* after the third attempt; for every mix of 429 responses, other non-2xx
\* statuses and transport errors it returns a value.
C19_TwoxxOrNone == HttpGetReturns(TRUE)

\* C19 (amended): the same, where an attempt succeeds with any status below 400
\* or above 599 (2xx, and also 1xx and 3xx), and fails with 429, a status of
\* 400..599 or a transport error.
C19_PassedOrNone == HttpGetReturns(FALSE)

\* a transport error, then a 429, then a 200: the third GET's response is
\* returned
C19_Witness ==
    /\ call.kind = "_http_get"
    /\ call.answers[1] = TransportError
    /\ call.answers[2] = Answer(429)
    /\ call.answers[3] = Answer(200)
    /\ call.attempts = 3
    /\ call.resp = HttpResponse(200)

SleepsAfter(a) == {i \in 1..Len(call.sleeps) : call.sleeps[i].attempt = a}

\* C20: every retry of one _http_get call is preceded by a sleep: an attempt a
\* (0-based) that is followed by another attempt is followed by exactly one
\* sleep first, of 2^(a+1) time units if attempt a got a 429 and of 2^a if it
\* got a transport error or an error status; the sleeps are in the order of
\* their attempts, no sleep is shorter than the one before it, and the sleeps
\* after failures of one kind get strictly longer.
C20_SleepBeforeRetry ==
    call.kind = "_http_get"
    => /\ \A a \in 0..(call.attempts - 2) :
              \E i \in SleepsAfter(a) :
                  /\ SleepsAfter(a) = {i}
                  /\ call.sleeps[i].wait =
                         IF call.answers[a + 1] = Answer(429) THEN 2 ^ (a + 1) ELSE 2 ^ a
       /\ \A i, j \in 1..Len(call.sleeps) :
              i < j => /\ call.sleeps[i].attempt < call.sleeps[j].attempt
                       /\ call.sleeps[i].wait <= call.sleeps[j].wait
                       /\ (call.answers[call.sleeps[i].attempt + 1] = Answer(429))
                            = (call.answers[call.sleeps[j].attempt + 1] = Answer(429))
                          => call.sleeps[i].wait < call.sleeps[j].wait

\* a 429, then a 503, then a 200: sleeps of 2 and 2 before the two retries
C20_Witness ==
    /\ call.kind = "_http_get"
    /\ call.answers = <<Answer(429), Answer(503), Answer(200)>>
    /\ call.attempts = 3
    /\ call.sleeps = <<[attempt |-> 0, wait |-> 2], [attempt |-> 1, wait |-> 2]>>

\* the places in the run of the last step of its calls `op`
Calls(op) == {i \in DOMAIN call.events : call.events[i].op = op}

\* the slugs of the malls both sources listed for that run, the primary source's
\* first, each in listing order
ListedSlugs ==
    [k \in 1..Len(call.upstream.raw_malls) |-> call.upstream.raw_malls[k].slug]
        \o [k \in 1..Len(call.upstream.capitaland_malls) |->
               call.upstream.capitaland_malls[k].slug]

\* the calls `op` of that run, in their order
OnlyCalls(op) == SelectSeq(call.events, LAMBDA e : e.op = op)

\* C21: within one run the primary mall list is fetched first, then the region
\* map, then the secondary mall list, each once, and only then are malls
\* processed; malls are processed one at a time, all primary-source malls in
\* listing order before all secondary-source malls in listing order (all of them
\* if no exception ends the run), and for each mall the Mall upsert comes before
\* the fetch of its store directory, with no call for another mall in between.
C21_PhasesInOrder ==
    call.kind = "run events"
    => LET ev == call.events
           upserts == OnlyCalls("_upsert_mall")
           mall_calls == Calls("_upsert_mall") \cup Calls("fetch stores")
       IN  /\ Cardinality(Calls("fetch mall list")) = 1
           /\ Cardinality(Calls("fetch region map")) <= 1
           /\ Cardinality(Calls("fetch CapitaLand mall list")) <= 1
           /\ \A a \in Calls("fetch region map") :
                  \A l \in Calls("fetch mall list") : l < a
           /\ \A b \in Calls("fetch CapitaLand mall list") :
                  \E a \in Calls("fetch region map") : a < b
           /\ \A m \in mall_calls :
                  \E b \in Calls("fetch CapitaLand mall list") : b < m
           /\ Len(upserts) <= Len(ListedSlugs)
           /\ \A k \in DOMAIN upserts : /\ upserts[k].place = k
                                         /\ upserts[k].slug = ListedSlugs[k]
           /\ call.upstream.fault = 0 /\ call.upstream.raw_malls # <<>>
                  => Len(upserts) = Len(ListedSlugs)
           /\ \A f \in Calls("fetch stores") :
                  /\ f - 1 \in Calls("_upsert_mall")
                  /\ ev[f - 1].place = ev[f].place
                  /\ ev[f - 1].slug = ev[f].slug
           /\ \A m, n \in DOMAIN ev :
                  m < n /\ ev[m].place # 0 /\ ev[n].place # 0
                      => ev[m].place <= ev[n].place

\* two malls of each source: the directory of the last secondary mall is fetched
C21_Witness ==
    /\ call.kind = "run events"
    /\ Len(call.upstream.raw_malls) = 2
    /\ Len(call.upstream.capitaland_malls) = 2
    /\ Len(OnlyCalls("fetch stores")) = 4
    /\ OnlyCalls("fetch stores")[4].slug = call.upstream.capitaland_malls[2].slug

\* the update at place i of the run counts the malls up to the one at this place
\* of the lists
CountsMall(i, place) ==
    /\ i \in Calls("update")
    /\ "completed_malls" \in DOMAIN call.events[i].arg
    /\ "current_mall" \in DOMAIN call.events[i].arg
    /\ call.events[i].arg.completed_malls = place

Pauses(i, place) ==
    /\ i \in Calls("sleep")
    /\ call.events[i].place = place
    /\ call.events[i].arg = INTER_REQUEST_DELAY

\* C22: after each mall has been processed (Mall upsert plus store-directory
\* attempt), the run updates completed_malls to count that mall and updates
\* current_mall, and then pauses the fixed inter-request delay before it starts
\* the next mall.
C22_UpdateThenPause ==
    call.kind = "run events"
    => \A f \in Calls("fetch stores") :
           /\ CountsMall(f + 1, call.events[f].place)
           /\ Pauses(f + 2, call.events[f].place)

\* C22 (amended): before each mall is processed the run sets current_mall to it
\* and completed_malls to the number of malls listed before it; after the mall
\* has been processed the run first pauses the fixed inter-request delay, and
\* the update that counts the mall is the next call after the pause: the update
\* that starts the next mall, or the done update after the last one.  There is no
\* pause but these.
C22_PauseThenUpdate ==
    call.kind = "run events"
    => LET ev == call.events
       IN  /\ \A u \in Calls("_upsert_mall") :
                  /\ u - 1 \in Calls("update")
                  /\ ev[u - 1].place = ev[u].place
                  /\ DOMAIN ev[u - 1].arg = {"current_mall", "completed_malls"}
                  /\ ev[u - 1].arg.completed_malls = ev[u].place - 1
           /\ \A f \in Calls("fetch stores") :
                  /\ Pauses(f + 1, ev[f].place)
                  /\ CountsMall(f + 2, ev[f].place)
                  /\ \/ /\ f + 3 \in Calls("_upsert_mall")
                        /\ ev[f + 3].place = ev[f].place + 1
                     \/ /\ f + 2 = Len(ev)
                        /\ ev[f].place = Len(ListedSlugs)
                        /\ ev[f + 2].arg.status = "done"
           /\ \A p \in Calls("sleep") : p - 1 \in Calls("fetch stores")

\* a run over two malls has paused after the first and then counted it
C22_Witness ==
    /\ call.kind = "run events"
    /\ Len(ListedSlugs) = 2
    /\ \E f \in Calls("fetch stores") :
          /\ call.events[f].place = 1
          /\ Pauses(f + 1, 1)
          /\ call.events[f + 2].arg.completed_malls = 1

\* a JSON response whose URL matches the API-path pattern and whose body has a
\* total-count field
Capturable(r) ==
    /\ "json" \in Range(r.ct)
    /\ "api-v1" \in Range(r.url) /\ "tenants" \in Range(r.url)
    /\ r.body.json = "dict" /\ r.body.has_totalcount

Captured(c) == c.first_data # NoData

\* what is captured is the first capturable response that has arrived
CapturedIsFirst(c) ==
    \E i \in DOMAIN c.arrived :
        /\ Capturable(c.arrived[i])
        /\ \A h \in 1..(i - 1) : ~Capturable(c.arrived[h])
        /\ c.first_api_url = c.arrived[i].url
        /\ c.first_data = c.arrived[i].body

\* C23: the capture of a page is single-shot: what is captured is the first
\* response to arrive that is JSON, matches the API-path pattern and has a
\* total-count field, and once something is captured no step changes the captured
\* URL or payload; a response that is not of that kind is never captured.
C23_SingleShot ==
    /\ [](call.kind = "page" /\ Captured(call) => CapturedIsFirst(call))
    /\ [][call.kind = "page" /\ Captured(call)
             => /\ call'.first_api_url = call.first_api_url
                /\ call'.first_data = call.first_data]_vars

\* The part of C23 that holds: what is captured is always a response that has
\* arrived and is JSON, matches the API-path pattern and has a total-count field
C23_OnlyCapturable ==
    call.kind = "page" /\ Captured(call)
    => \E i \in DOMAIN call.arrived :
           /\ Capturable(call.arrived[i])
           /\ call.first_api_url = call.arrived[i].url
           /\ call.first_data = call.arrived[i].body

\* two capturable responses have arrived, the first is captured and no handler
\* call is left
C23_Witness ==
    /\ call.kind = "page"
    /\ call.in_json = {}
    /\ Len(call.arrived) >= 2
    /\ Capturable(call.arrived[1]) /\ Capturable(call.arrived[2])
    /\ call.first_api_url = call.arrived[1].url

\* the follow-up pages of the last call that were answered without a failure
\* before the first one that failed
RECURSIVE PagesBeforeFailure(_)
PagesBeforeFailure(n) ==
    IF n > MaxPages \/ n > Len(call.requests) \/ call.answers[n].raises THEN <<>>
    ELSE call.answers[n].stores \o PagesBeforeFailure(n + 1)

\* With follow-up pages due (paginates), the page requests are made one after
\* the other with cursors 101, 201, ...; they go on until the pages asked for
\* reach the total count or a request fails, after which none is made; what is
\* returned is the first page and then the pages before the failure, in order.
FollowUpPages(paginates) ==
    call.kind = "paginate" /\ paginates
    => LET n == Len(call.requests)
       IN  /\ \A i \in 1..n : /\ call.requests[i].start = PAGE_SIZE * i + 1
                               /\ call.requests[i].size = PAGE_SIZE
                               /\ call.requests[i].base_url = TenantsUrl
           /\ \A i \in 1..(n - 1) : ~call.answers[i].raises
           /\ \/ n >= 1 /\ call.answers[n].raises
              \/ /\ PAGE_SIZE * (n + 1) >= call.total_count
                 /\ PAGE_SIZE * n < call.total_count
           /\ call.stores = call.first_stores \o PagesBeforeFailure(1)

\* C24: when the captured first response reports a totalcount greater than the
\* page size, the adapter issues follow-up page requests whose cursor advances by
\* the page size until all totalcount items have been asked for; if a page
\* request fails, no further page is requested and the items of the first page
\* and of the pages before it are returned.
C24_PagesWhenMore == FollowUpPages(call.total_count > PAGE_SIZE)

\* C24 (amended): the same, when moreover the captured URL ends in the cursor
\* suffix /cl%3Apgcursor/<digits>/<digits>.json; with any other captured URL, as
\* with a totalcount of at most the page size, no page request is made and the
\* first page is returned.
C24_PagesWhenCursorUrl ==
    /\ FollowUpPages(/\ call.total_count > PAGE_SIZE
                     /\ StripCursor(call.first_api_url) # call.first_api_url)
    /\ call.kind = "paginate"
          /\ ~(/\ call.total_count > PAGE_SIZE
               /\ StripCursor(call.first_api_url) # call.first_api_url)
       => call.requests = <<>> /\ call.stores = call.first_stores

\* 301 items: pages 101 and 201 answer, page 301 fails, and three pages of
\* stores are returned
C24_Witness ==
    /\ call.kind = "paginate"
    /\ call.total_count = 301
    /\ Len(call.requests) = 3
    /\ call.answers[3].raises
    /\ call.stores = <<FirstPageStore, PageStore(1), PageStore(2)>>

Regions == {Central, North, NorthEast, East, West, South}

\* the last call inferred the region of a mall that the region map lacks from an
\* address that is a postal code with this prefix
InferredFrom(prefix) ==
    /\ call.kind \in {"_build_mall_data", "mall_data"}
    /\ _normalize(call.name) \notin DOMAIN call.wiki_map
    /\ call.address = PostalCode(prefix)

\* C25: the prefix-to-region table used for postal-code inference covers all 100
\* two-digit prefixes, 00 to 99, each mapped to one of the six regions.
C25_EveryPrefix ==
    \A prefix \in 0..99 : InferredFrom(prefix) => call.region \in Regions

\* C25 (amended): the table maps the 83 prefixes 01 to 73 and 75 to 84, each to
\* one of the six regions; for the 17 prefixes 00, 74 and 85 to 99 it has no
\* entry, and the inferred region is none.
C25_MappedPrefixes ==
    \A prefix \in 0..99 :
        InferredFrom(prefix)
        => IF prefix \in (1..73) \cup (75..84)
           THEN call.region \in Regions
           ELSE call.region = None

\* the region of the last prefix of the table has been inferred
C25_Witness == InferredFrom(84) /\ call.region = Central

\* C26: in every reachable tracker state, across runs and start requests,
\* 0 <= completed_malls <= total_malls, and completed_malls never decreases
\* between the update of a run that sets status running and its update that sets
\* done or error.
C26_Progress ==
    /\ [](/\ 0 <= _job_state.completed_malls
          /\ _job_state.completed_malls <= _job_state.total_malls)
    /\ [][/\ _job_state.status = "running"
           /\ _job_state'.job_id = _job_state.job_id
             => _job_state'.completed_malls >= _job_state.completed_malls]_vars

\* C27: in every reachable tracker state, across runs and start requests, error
\* is not None exactly when status is error: it is None while status is idle,
\* running or done.
C27_ErrorWithMessage ==
    (_job_state.error # None) <=> (_job_state.status = "error")

\* the run of job j has fetched an empty primary mall list and has not returned
EmptyListRun(j) ==
    /\ run[j].pc \in {"check", "finally"}
    /\ run[j].raw_malls = <<>>
    /\ ~run[j].fault

\* C28: a run that fails because the primary mall list is empty writes nothing
\* to storage and makes no further upstream request: no step of the run up to
\* the fetch of the list, and none after it, changes the malls, stores or
\* mall_stores; after the fetch the run writes the error, fetches neither the
\* region map nor the secondary mall list nor a store directory, and returns.
C28_EmptyListNoEffect ==
    [][\A j \in Jobs :
          /\ run'[j] # run[j]
          /\ run[j].pc \in {"queued", "list"} \/ EmptyListRun(j)
          => /\ malls' = malls /\ stores' = stores /\ mall_stores' = mall_stores
             /\ EmptyListRun(j)
                => /\ fetched' = NoFetch
                   /\ run'[j].wiki_map = <<>> /\ run'[j].capitaland_malls = <<>>
                   /\ run'[j].pc = IF run[j].pc = "check" THEN "finally" ELSE "returned"
                   /\ run[j].pc = "check"
                      => /\ _job_state'.status = "error"
                         /\ outcome'[j] = "error"]_vars

\* a run that found the primary list empty has written its error and is about
\* to return, with the malls of an earlier run in storage
C28_Witness ==
    \E j \in Jobs :
        /\ EmptyListRun(j)
        /\ run[j].pc = "finally"
        /\ outcome[j] = "error"
        /\ malls # {}

====
